---- MODULE Spec2Model ----
(***************************************************************************)
(* A model of xo-args (src/xo-args.h): argument declaration, the scan of   *)
(* argv done by xo_args_submit, and the typed accessors.                   *)
(*                                                                         *)
(* C strings are tuples of one-character strings: "--foo" is               *)
(* <<"-","-","f","o","o">>.  A NULL char pointer is the tuple NULL.  An    *)
(* xo_args_arg pointer is the 1-based position of the argument in          *)
(* context->args, and 0 is the NULL pointer.  argv[k] of the C code is     *)
(* argv[k + 1] here.                                                       *)
(***************************************************************************)
EXTENDS Integers, Sequences, FiniteSets, TLC

VARIABLES
    argv,         \* context->argv, argv[1] is the program path
    app_version,  \* context->app_version (NULL when none was given)
    args,         \* context->args[0 .. args_size-1]
    out,          \* everything passed to context->print, in order
    asserts,      \* number of XO_ARGS_ASSERT conditions that were false
    host,         \* the calls the host program has still to make
    handles,      \* what xo_args_declare_arg returned to the host, in order
    pc,           \* where the host is: "host", inside submit, or after destroy
    i,            \* xo_args_submit: the scan index (C index into argv)
    arg_help,     \* xo_args_submit: handle of the implicit help switch
    arg_version,  \* xo_args_submit: handle of the implicit version switch
    result,       \* what xo_args_submit returned: "true", "false", or "none"
    submitted,    \* context->submitted
    trace,        \* one record per iteration of the scan loop of submit
    out_before,   \* what had been printed and how many assertions had
                  \* failed when xo_args_submit was entered
    mem,          \* the allocator and the context's allocation bookkeeping
    done,         \* the calls the host has made, in order
    create        \* what xo_args_create_ctx_advanced was given and whether
                  \* it returned a context

vars == <<argv, app_version, args, out, asserts, host, handles, pc, i,
          arg_help, arg_version, result, submitted, trace, out_before,
          mem, done, create>>

----------------------------------------------------------------------------
(* Strings *)

NULL == <<"NULL">>


\* the byte at C index k of a NUL terminated string
CharAt(str, k) == IF k < Len(str) THEN str[k + 1] ELSE "NUL"

\* 0 == strncmp(&str[off], name, strlen(name)), for off <= strlen(str)
strncmp0(str, off, name) ==
    /\ off + Len(name) <= Len(str)
    /\ SubSeq(str, off + 1, off + Len(name)) = name

\* the rest of a string from C index off on (&str[off])
StrFrom(str, off) == SubSeq(str, off + 1, Len(str))

----------------------------------------------------------------------------
(* XO_ARGS_ARG_FLAG: a flags value is the set of its bits *)

XO_ARGS_TYPE_STRING == "STRING"
XO_ARGS_TYPE_SWITCH == "SWITCH"
XO_ARGS_TYPE_BOOL == "BOOL"
XO_ARGS_TYPE_INT == "INT"
XO_ARGS_TYPE_DOUBLE == "DOUBLE"
XO_ARGS_TYPE_STRING_ARRAY == "STRING_ARRAY"
XO_ARGS_TYPE_BOOL_ARRAY == "BOOL_ARRAY"
XO_ARGS_TYPE_INT_ARRAY == "INT_ARRAY"
XO_ARGS_TYPE_DOUBLE_ARRAY == "DOUBLE_ARRAY"
XO_ARGS_ARG_REQUIRED == "REQUIRED"

all_types ==
    {XO_ARGS_TYPE_STRING, XO_ARGS_TYPE_SWITCH, XO_ARGS_TYPE_BOOL,
     XO_ARGS_TYPE_INT, XO_ARGS_TYPE_DOUBLE, XO_ARGS_TYPE_BOOL_ARRAY,
     XO_ARGS_TYPE_INT_ARRAY, XO_ARGS_TYPE_DOUBLE_ARRAY,
     XO_ARGS_TYPE_STRING_ARRAY}

_xo_args_arg_flag_is_array(flags) ==
    flags \cap {XO_ARGS_TYPE_STRING_ARRAY, XO_ARGS_TYPE_INT_ARRAY,
                XO_ARGS_TYPE_DOUBLE_ARRAY, XO_ARGS_TYPE_BOOL_ARRAY} # {}

----------------------------------------------------------------------------
(* _xo_args_arg_matches_input *)

NoMatch == [matched |-> FALSE, match_type |-> "NONE", matched_name_length |-> 0]

Match(t, n) == [matched |-> TRUE, match_type |-> t, matched_name_length |-> n]

_xo_args_arg_matches_input(arg, str) ==
    LET str_len == Len(str)
        name_length == Len(arg.name)
        short_name_length == IF arg.short_name = NULL THEN 0
                             ELSE Len(arg.short_name)
    IN  IF str_len = 0 THEN NoMatch
        ELSE IF str[1] # "-" THEN NoMatch
        ELSE IF str_len > 2 /\ str[2] = "-" /\ strncmp0(str, 2, arg.name)
        THEN IF str_len - 2 = name_length
             THEN Match("NAME", name_length)
             ELSE IF CharAt(str, name_length + 2) = "="
             THEN Match("ASSIGN_NAME", name_length)
             ELSE NoMatch
        ELSE IF arg.short_name # NULL /\ strncmp0(str, 1, arg.short_name)
        THEN IF str_len - 1 = short_name_length
             THEN Match("SHORT_NAME", short_name_length)
             ELSE IF CharAt(str, short_name_length + 1) = "="
             THEN Match("ASSIGN_SHORT_NAME", short_name_length)
             ELSE NoMatch
        ELSE NoMatch

IsAssign(match) == match.match_type \in {"ASSIGN_NAME", "ASSIGN_SHORT_NAME"}

\* offset of the value in an assignment token: 3 for "--" and "=", 2 for
\* "-" and "=", plus the matched name
\* a variant that always skips the two hyphens of the long form
AssignOffsetLong(match) == 3 + match.matched_name_length

AssignOffset(match) ==
    (IF match.match_type = "ASSIGN_NAME" THEN 3 ELSE 2)
        + match.matched_name_length

----------------------------------------------------------------------------
(* Value grammar: _xo_args_try_parse_bool, _int, _double *)

isspace(c) == c \in {" ", "\t", "\n", "\r", "\f"}

L_false == <<"f","a","l","s","e">>
L_False == <<"F","a","l","s","e">>
L_FALSE == <<"F","A","L","S","E">>
L_true == <<"t","r","u","e">>
L_True == <<"T","r","u","e">>
L_TRUE == <<"T","R","U","E">>

Fail == [ok |-> FALSE, value |-> <<>>]
Ok(v) == [ok |-> TRUE, value |-> v]

\* a variant that also takes the one-letter spelling t
parse_bool_lenient(input) ==
    IF input \in {<<"0">>, L_false, L_False, L_FALSE} THEN Ok(FALSE)
    ELSE IF input \in {<<"1">>, <<"t">>, L_true, L_True, L_TRUE} THEN Ok(TRUE)
    ELSE Fail

_xo_args_try_parse_bool(input) ==
    IF input \in {<<"0">>, L_false, L_False, L_FALSE} THEN Ok(FALSE)
    ELSE IF input \in {<<"1">>, L_true, L_True, L_TRUE} THEN Ok(TRUE)
    ELSE Fail

DigitValue ==
    "0" :> 0 @@ "1" :> 1 @@ "2" :> 2 @@ "3" :> 3 @@ "4" :> 4 @@ "5" :> 5 @@
    "6" :> 6 @@ "7" :> 7 @@ "8" :> 8 @@ "9" :> 9 @@
    "a" :> 10 @@ "b" :> 11 @@ "c" :> 12 @@ "d" :> 13 @@ "e" :> 14 @@
    "f" :> 15 @@
    "A" :> 10 @@ "B" :> 11 @@ "C" :> 12 @@ "D" :> 13 @@ "E" :> 14 @@
    "F" :> 15

IsDigitIn(c, base) == c \in DOMAIN DigitValue /\ DigitValue[c] < base

\* how many characters from C index p on are digits of the base
RECURSIVE DigitRun(_, _, _)
DigitRun(str, p, base) ==
    IF IsDigitIn(CharAt(str, p), base) THEN 1 + DigitRun(str, p + 1, base)
    ELSE 0

(* A magnitude of any size is the tuple of its decimal digits, least      *)
(* significant first, without high zeros; zero is the empty tuple.        *)
RECURSIVE MagMulAdd(_, _, _)
MagMulAdd(mag, base, carry) ==
    IF mag = <<>>
    THEN IF carry = 0 THEN <<>>
         ELSE <<carry % 10>> \o MagMulAdd(<<>>, base, carry \div 10)
    ELSE LET v == Head(mag) * base + carry
         IN  <<v % 10>> \o MagMulAdd(Tail(mag), base, v \div 10)

RECURSIVE MagLeq(_, _)
MagLeq(a, b) ==
    IF Len(a) # Len(b) THEN Len(a) < Len(b)
    ELSE IF a = <<>> THEN TRUE
    ELSE LET n == Len(a)
         IN  IF a[n] # b[n] THEN a[n] < b[n]
             ELSE MagLeq(SubSeq(a, 1, n - 1), SubSeq(b, 1, n - 1))

\* the magnitude of the digits str[p .. p+n-1] read in the base
RECURSIVE MagOfDigits(_, _, _, _, _)
MagOfDigits(str, p, n, base, acc) ==
    IF n = 0 THEN acc
    ELSE MagOfDigits(str, p + 1, n - 1, base,
                     MagMulAdd(acc, base, DigitValue[CharAt(str, p)]))

\* 9223372036854775807 and 9223372036854775808, least significant digit first
LLONG_MAX_mag == <<7,0,8,5,7,7,4,5,8,6,3,0,2,7,3,3,2,2,9>>
LLONG_MIN_mag == <<8,0,8,5,7,7,4,5,8,6,3,0,2,7,3,3,2,2,9>>

(* strtoll(input, &end_ptr, 0) for an input without leading whitespace:   *)
(* end_ptr as a C index (0 when nothing was converted), the value as sign *)
(* and magnitude, and whether errno became ERANGE.                        *)
strtoll(input) ==
    LET neg == CharAt(input, 0) = "-"
        p0 == IF CharAt(input, 0) \in {"+", "-"} THEN 1 ELSE 0
        hex == /\ CharAt(input, p0) = "0"
               /\ CharAt(input, p0 + 1) \in {"x", "X"}
               /\ IsDigitIn(CharAt(input, p0 + 2), 16)
        base == IF hex THEN 16 ELSE IF CharAt(input, p0) = "0" THEN 8 ELSE 10
        start == IF hex THEN p0 + 2 ELSE p0
        n == DigitRun(input, start, base)
        mag == MagOfDigits(input, start, n, base, <<>>)
    IN  [end_ptr |-> IF n = 0 THEN 0 ELSE start + n,
         neg |-> neg /\ mag # <<>>,
         mag |-> mag,
         erange |-> IF neg THEN ~MagLeq(mag, LLONG_MIN_mag)
                    ELSE ~MagLeq(mag, LLONG_MAX_mag)]

\* a variant that accepts a number followed by other characters
ConvertedPrefix(r, input, value) ==
    IF r.erange \/ r.end_ptr = 0 THEN Fail ELSE Ok(value)

\* the checks on errno and end_ptr after the conversion r of the input
Converted(r, input, value) ==
    IF r.erange \/ r.end_ptr # Len(input) \/ r.end_ptr = 0 THEN Fail
    ELSE Ok(value)

IntValue(r) == [neg |-> r.neg, mag |-> r.mag]

IntOf(r, input) == Converted(r, input, IntValue(r))

_xo_args_try_parse_int(input) ==
    IF input = <<>> \/ isspace(input[1]) THEN Fail
    ELSE IntOf(strtoll(input), input)

ToLower(c) ==
    CASE c = "I" -> "i" [] c = "N" -> "n" [] c = "F" -> "f" [] c = "T" -> "t"
      [] c = "Y" -> "y" [] c = "A" -> "a" [] OTHER -> c

\* the text at C index p continues with word, whatever the case of its letters
RECURSIVE HasWordAt(_, _, _)
HasWordAt(str, p, word) ==
    \/ word = <<>>
    \/ /\ ToLower(CharAt(str, p)) = Head(word)
       /\ HasWordAt(str, p + 1, Tail(word))

RECURSIVE MagTrim(_)
MagTrim(mag) ==
    IF mag # <<>> /\ mag[Len(mag)] = 0 THEN MagTrim(SubSeq(mag, 1, Len(mag) - 1))
    ELSE mag

RECURSIVE StripLow(_)
StripLow(v) ==
    IF v.mag # <<>> /\ Head(v.mag) = 0
    THEN StripLow([mag |-> Tail(v.mag), exp |-> v.exp + 1])
    ELSE IF v.mag = <<>> THEN [mag |-> <<>>, exp |-> 0] ELSE v

RECURSIVE SmallOfDigits(_, _, _, _)
SmallOfDigits(str, p, n, acc) ==
    IF n = 0 THEN acc
    ELSE SmallOfDigits(str, p + 1, n - 1, acc * 10 + DigitValue[CharAt(str, p)])

(* strtod(input, &end_ptr) for an input without leading whitespace, on    *)
(* decimal literals, inf, infinity and nan (hexadecimal floating literals *)
(* and nan(...) are not modelled).  A finite value is mantissa digits     *)
(* times ten to exp, in lowest terms; binary rounding is not modelled.    *)
(* errno becomes ERANGE for a magnitude of 1e309 or more, or below 1e-324. *)
strtod(input) ==
    LET neg == CharAt(input, 0) = "-"
        p0 == IF CharAt(input, 0) \in {"+", "-"} THEN 1 ELSE 0
        ni == DigitRun(input, p0, 10)
        dot == CharAt(input, p0 + ni) = "."
        nf == IF dot THEN DigitRun(input, p0 + ni + 1, 10) ELSE 0
        pe == IF dot THEN p0 + ni + 1 + nf ELSE p0 + ni
        esign == CharAt(input, pe + 1) \in {"+", "-"}
        ps == IF esign THEN pe + 2 ELSE pe + 1
        ne == IF CharAt(input, pe) \in {"e", "E"} THEN DigitRun(input, ps, 10)
              ELSE 0
        ev == SmallOfDigits(input, ps, ne, 0)
        e10 == IF esign /\ CharAt(input, pe + 1) = "-" THEN 0 - ev ELSE ev
        m0 == MagOfDigits(input, p0, ni, 10, <<>>)
        m1 == IF dot THEN MagOfDigits(input, p0 + ni + 1, nf, 10, m0) ELSE m0
        v == StripLow([mag |-> MagTrim(m1), exp |-> e10 - nf])
        top == v.exp + Len(v.mag) - 1
    IN  IF HasWordAt(input, p0, <<"i","n","f","i","n","i","t","y">>)
        THEN [end_ptr |-> p0 + 8, erange |-> FALSE,
              value |-> [cls |-> "inf", neg |-> neg, mag |-> <<>>, exp |-> 0]]
        ELSE IF HasWordAt(input, p0, <<"i","n","f">>)
        THEN [end_ptr |-> p0 + 3, erange |-> FALSE,
              value |-> [cls |-> "inf", neg |-> neg, mag |-> <<>>, exp |-> 0]]
        ELSE IF HasWordAt(input, p0, <<"n","a","n">>)
        THEN [end_ptr |-> p0 + 3, erange |-> FALSE,
              value |-> [cls |-> "nan", neg |-> FALSE, mag |-> <<>>, exp |-> 0]]
        ELSE IF ni + nf = 0
        THEN [end_ptr |-> 0, erange |-> FALSE,
              value |-> [cls |-> "fin", neg |-> FALSE, mag |-> <<>>, exp |-> 0]]
        ELSE [end_ptr |-> IF ne > 0 THEN ps + ne ELSE pe,
              erange |-> v.mag # <<>> /\ (top > 308 \/ top < 0 - 324),
              value |-> [cls |-> "fin", neg |-> neg, mag |-> v.mag,
                         exp |-> v.exp]]

DoubleOf(r, input) == Converted(r, input, r.value)

_xo_args_try_parse_double(input) ==
    IF input = <<>> \/ isspace(input[1]) THEN Fail
    ELSE DoubleOf(strtod(input), input)

----------------------------------------------------------------------------
(* struct xo_args_arg with _xo_args_arg_single and _xo_args_arg_array:    *)
(* value is the union of a single (empty while uninitialized), array the  *)
(* elements array[0 .. array_size-1] of an array argument.                *)

NewArg(name, short_name, flags) ==
    [name |-> name, short_name |-> short_name, flags |-> flags,
     has_value |-> FALSE, value |-> <<>>, array |-> <<>>]

Letters ==
    {"a","b","c","d","e","f","g","h","i","j","k","l","m","n","o","p","q",
     "r","s","t","u","v","w","x","y","z",
     "A","B","C","D","E","F","G","H","I","J","K","L","M","N","O","P","Q",
     "R","S","T","U","V","W","X","Y","Z"}

Digits == {"0","1","2","3","4","5","6","7","8","9"}

_xo_isalnum(c) == c \in Letters \/ c \in Digits \/ c = "-"

\* the loop stops at last = end - 1, so the final character is not looked
\* at; on an empty string the first byte read is the terminator
_xo_isalnum_str(str) ==
    IF Len(str) = 0 THEN FALSE
    ELSE \A k \in 1 .. Len(str) - 1 : _xo_isalnum(str[k])

Prt(k, s) == [k |-> k, s |-> s]

\* a variant that compares the names only
ConflictsByName(as, name, short_name) ==
    {k \in 1 .. Len(as) : as[k].name = name}

\* the existing arguments a declaration conflicts with
Conflicts(as, name, short_name) ==
    {k \in 1 .. Len(as) :
        \/ as[k].name = name
        \/ short_name # NULL /\ as[k].short_name # NULL
           /\ as[k].short_name = short_name}

SetMin(S) == CHOOSE m \in S : \A n \in S : m <= n

\* a variant that stores a required switch as it was given
StoredFlagsKeepRequired(flags) ==
    IF flags \cap all_types # {} THEN flags
    ELSE flags \cup {XO_ARGS_TYPE_STRING}

\* a variant without the default type
StoredFlagsNoDefault(flags) ==
    IF {XO_ARGS_TYPE_SWITCH, XO_ARGS_ARG_REQUIRED} \subseteq flags
    THEN flags \ {XO_ARGS_ARG_REQUIRED}
    ELSE flags

\* lines 1881-1893: String when no type bit is given, and a switch is
\* never required
StoredFlags(flags) ==
    IF flags \cap all_types = {} THEN flags \cup {XO_ARGS_TYPE_STRING}
    ELSE IF {XO_ARGS_TYPE_SWITCH, XO_ARGS_ARG_REQUIRED} \subseteq flags
    THEN flags \ {XO_ARGS_ARG_REQUIRED}
    ELSE flags

(* xo_args_declare_arg on a non-NULL context: the new argument list, what *)
(* was printed, how many assertions failed and the returned handle.       *)
(* value_tip and description only feed the help columns and are left out. *)
xo_args_declare_arg(as, name, short_name, flags) ==
    LET Ret(as2, o, n, h) == [args |-> as2, out |-> o, asserts |-> n, ret |-> h]
        a1 == IF name # NULL /\ Len(name) = 0 THEN 1 ELSE 0
        a2 == IF short_name # NULL /\ Len(short_name) = 0 THEN 1 ELSE 0
        short_name_len == IF short_name = NULL THEN 0 ELSE Len(short_name)
        bits == Cardinality(flags \cap all_types)
        C == Conflicts(as, name, short_name)
    IN  IF name = NULL THEN Ret(as, <<>>, 1, 0)
        ELSE IF ~_xo_isalnum_str(name) THEN Ret(as, <<>>, a1 + a2 + 1, 0)
        ELSE IF short_name_len > 0 /\ ~_xo_isalnum_str(short_name)
        THEN Ret(as, <<>>, a1 + a2 + 1, 0)
        ELSE IF bits > 1 THEN Ret(as, <<>>, a1 + a2 + 1, 0)
        ELSE IF C # {}
        THEN Ret(as,
                 <<IF as[SetMin(C)].name = name
                   THEN Prt("conflict_name", name)
                   ELSE Prt("conflict_short_name", short_name)>>,
                 a1 + a2, 0)
        ELSE Ret(Append(as, NewArg(name, short_name, StoredFlags(flags))), <<>>,
                 a1 + a2, Len(as) + 1)

----------------------------------------------------------------------------
(* Accessors.  Each takes the handle and the caller's current out value   *)
(* and gives the return value, the out value afterwards and the number of *)
(* failed assertions.                                                     *)

Got(r, o, n) == [ret |-> r, out |-> o, asserts |-> n]

\* a variant that reports an argument without a value as found
try_get_single_found(as, arg, type, out_value) ==
    IF arg = 0 THEN Got(FALSE, out_value, 1)
    ELSE IF type \notin as[arg].flags THEN Got(FALSE, out_value, 1)
    ELSE IF as[arg].has_value THEN Got(TRUE, as[arg].value[1], 0)
    ELSE Got(TRUE, out_value, 0)

try_get_single(as, arg, type, out_value) ==
    IF arg = 0 THEN Got(FALSE, out_value, 1)
    ELSE IF type \notin as[arg].flags THEN Got(FALSE, out_value, 1)
    ELSE IF as[arg].has_value THEN Got(TRUE, as[arg].value[1], 0)
    ELSE Got(FALSE, out_value, 0)

xo_args_try_get_string(as, arg, out_string) ==
    try_get_single(as, arg, XO_ARGS_TYPE_STRING, out_string)

xo_args_try_get_int(as, arg, out_int) ==
    try_get_single(as, arg, XO_ARGS_TYPE_INT, out_int)

xo_args_try_get_double(as, arg, out_double) ==
    try_get_single(as, arg, XO_ARGS_TYPE_DOUBLE, out_double)

\* a variant that treats a switch like a Bool: not found until it is set
get_bool_unset_not_found(as, arg, out_bool) ==
    IF arg = 0 THEN Got(FALSE, out_bool, 1)
    ELSE IF XO_ARGS_TYPE_BOOL \notin as[arg].flags
            /\ XO_ARGS_TYPE_SWITCH \notin as[arg].flags
    THEN Got(FALSE, out_bool, 1)
    ELSE IF as[arg].has_value
    THEN Got(TRUE, IF XO_ARGS_TYPE_BOOL \in as[arg].flags
                   THEN as[arg].value[1] ELSE TRUE, 0)
    ELSE Got(FALSE, out_bool, 0)

xo_args_try_get_bool(as, arg, out_bool) ==
    IF arg = 0 THEN Got(FALSE, out_bool, 1)
    ELSE IF XO_ARGS_TYPE_BOOL \notin as[arg].flags
            /\ XO_ARGS_TYPE_SWITCH \notin as[arg].flags
    THEN Got(FALSE, out_bool, 1)
    ELSE IF XO_ARGS_TYPE_BOOL \in as[arg].flags
    THEN IF as[arg].has_value THEN Got(TRUE, as[arg].value[1], 0)
         ELSE Got(FALSE, out_bool, 0)
    ELSE Got(TRUE, as[arg].has_value, 0)

try_get_array(as, arg, type, out_array) ==
    IF arg = 0 THEN Got(FALSE, out_array, 1)
    ELSE IF type \notin as[arg].flags THEN Got(FALSE, out_array, 1)
    ELSE IF as[arg].has_value THEN Got(TRUE, as[arg].array, 0)
    ELSE Got(FALSE, out_array, 0)

xo_args_try_get_string_array(as, arg, out_array) ==
    try_get_array(as, arg, XO_ARGS_TYPE_STRING_ARRAY, out_array)

xo_args_try_get_int_array(as, arg, out_array) ==
    try_get_array(as, arg, XO_ARGS_TYPE_INT_ARRAY, out_array)

\* the assertion of its wrong-type branch tests the Int array bit
xo_args_try_get_double_array(as, arg, out_array) ==
    IF arg = 0 THEN Got(FALSE, out_array, 1)
    ELSE IF XO_ARGS_TYPE_DOUBLE_ARRAY \notin as[arg].flags
    THEN Got(FALSE, out_array,
             IF XO_ARGS_TYPE_INT_ARRAY \in as[arg].flags THEN 0 ELSE 1)
    ELSE IF as[arg].has_value THEN Got(TRUE, as[arg].array, 0)
    ELSE Got(FALSE, out_array, 0)

xo_args_try_get_bool_array(as, arg, out_array) ==
    try_get_array(as, arg, XO_ARGS_TYPE_BOOL_ARRAY, out_array)

----------------------------------------------------------------------------
(* _xo_args_try_parse_arg *)

\* the branch of the if / else-if chain taken for the stored flags
TypeBranch(flags) ==
    IF XO_ARGS_TYPE_STRING \in flags THEN XO_ARGS_TYPE_STRING
    ELSE IF XO_ARGS_TYPE_SWITCH \in flags THEN XO_ARGS_TYPE_SWITCH
    ELSE IF XO_ARGS_TYPE_BOOL \in flags THEN XO_ARGS_TYPE_BOOL
    ELSE IF XO_ARGS_TYPE_INT \in flags THEN XO_ARGS_TYPE_INT
    ELSE IF XO_ARGS_TYPE_DOUBLE \in flags THEN XO_ARGS_TYPE_DOUBLE
    ELSE IF XO_ARGS_TYPE_STRING_ARRAY \in flags THEN XO_ARGS_TYPE_STRING_ARRAY
    ELSE IF XO_ARGS_TYPE_INT_ARRAY \in flags THEN XO_ARGS_TYPE_INT_ARRAY
    ELSE IF XO_ARGS_TYPE_DOUBLE_ARRAY \in flags THEN XO_ARGS_TYPE_DOUBLE_ARRAY
    ELSE IF XO_ARGS_TYPE_BOOL_ARRAY \in flags THEN XO_ARGS_TYPE_BOOL_ARRAY
    ELSE "NONE"

ScalarTypes ==
    {XO_ARGS_TYPE_STRING, XO_ARGS_TYPE_BOOL, XO_ARGS_TYPE_INT,
     XO_ARGS_TYPE_DOUBLE}

ArrayTypes ==
    {XO_ARGS_TYPE_STRING_ARRAY, XO_ARGS_TYPE_BOOL_ARRAY,
     XO_ARGS_TYPE_INT_ARRAY, XO_ARGS_TYPE_DOUBLE_ARRAY}

\* how a branch turns a value token into the stored value: a string is
\* copied, the other types go through their parser
ParseValue(type, input) ==
    IF type \in {XO_ARGS_TYPE_STRING, XO_ARGS_TYPE_STRING_ARRAY} THEN Ok(input)
    ELSE IF type \in {XO_ARGS_TYPE_BOOL, XO_ARGS_TYPE_BOOL_ARRAY}
    THEN _xo_args_try_parse_bool(input)
    ELSE IF type \in {XO_ARGS_TYPE_INT, XO_ARGS_TYPE_INT_ARRAY}
    THEN _xo_args_try_parse_int(input)
    ELSE _xo_args_try_parse_double(input)

\* the diagnostic a branch prints for a value its parser rejects
InvalidKind(type) ==
    IF type \in {XO_ARGS_TYPE_BOOL, XO_ARGS_TYPE_BOOL_ARRAY} THEN "invalid_bool"
    ELSE IF type \in {XO_ARGS_TYPE_INT, XO_ARGS_TYPE_INT_ARRAY}
    THEN "invalid_int"
    ELSE "invalid_double"

\* a push that puts the new element in front of the others
array_push_front(as, j, value) ==
    [as EXCEPT ![j].array = <<value>> \o @]

_xo_args_arg_array_push(as, j, value) ==
    [as EXCEPT ![j].array = Append(@, value)]

SetSingle(as, j, value) ==
    [as EXCEPT ![j].value = <<value>>, ![j].has_value = TRUE]

Parsed(ok, as, idx, o) == [ok |-> ok, args |-> as, i |-> idx, out |-> o]

\* a loop over the arguments that stops one short of the last one
AnyEarlierArgMatches(as, str) ==
    \E k \in 1 .. Len(as) - 1 : _xo_args_arg_matches_input(as[k], str).matched

AnyArgMatches(as, str) ==
    \E k \in 1 .. Len(as) : _xo_args_arg_matches_input(as[k], str).matched

\* a variant that appends the element twice
PushedTwice(as, j, value) ==
    [as EXCEPT ![j].array = @ \o <<value, value>>, ![j].has_value = TRUE]

\* the push of one element, after which the argument has a value
Pushed(as, j, value) ==
    [_xo_args_arg_array_push(as, j, value) EXCEPT ![j].has_value = TRUE]

(* The loop after the first element of an array: next_index is the C      *)
(* index looked at, last the index *argv_index holds.  Element is the     *)
(* part shared by the first element and the loop: r is the conversion of  *)
(* the token at index, which is appended or reported.                     *)
RECURSIVE Slurp(_, _, _, _, _, _, _)
\* a variant that leaves a rejected token to the outer scan
ElementLeavingRejected(r, av, as, j, type, argv_name, index, last) ==
    IF r.ok
    THEN Slurp(av, Pushed(as, j, r.value), j, type, argv_name, index + 1, index)
    ELSE Parsed(TRUE, as, last, <<>>)

Element(r, av, as, j, type, argv_name, index, last) ==
    IF r.ok
    THEN Slurp(av, Pushed(as, j, r.value), j, type, argv_name, index + 1, index)
    ELSE Parsed(FALSE, as, last, <<Prt(InvalidKind(type), argv_name)>>)

Slurp(av, as, j, type, argv_name, next_index, last) ==
    IF next_index >= Len(av) THEN Parsed(TRUE, as, last, <<>>)
    ELSE IF AnyArgMatches(as, av[next_index + 1])
    THEN Parsed(TRUE, as, last, <<>>)
    ELSE Element(ParseValue(type, av[next_index + 1]),
                 av, as, j, type, argv_name, next_index, last)

\* a duplicate check that lets a switch be given again
IsDuplicateValued(arg) ==
    /\ arg.has_value
    /\ ~_xo_args_arg_flag_is_array(arg.flags)
    /\ XO_ARGS_TYPE_SWITCH \notin arg.flags

\* lines 1115: a second occurrence of anything but an array
IsDuplicate(arg) == arg.has_value /\ ~_xo_args_arg_flag_is_array(arg.flags)

\* a single-valued branch after the conversion r of its value text: store
\* the value and leave *argv_index at idx_ok, or print the diagnostic
SingleResult(r, as, idx, j, idx_ok, kind, shown) ==
    IF r.ok THEN Parsed(TRUE, SetSingle(as, j, r.value), idx_ok, <<>>)
    ELSE Parsed(FALSE, as, idx, <<Prt(kind, shown)>>)

\* the flag text an assignment token's invalid-value diagnostic shows
AssignShown(tok, type, offset) ==
    IF type = XO_ARGS_TYPE_BOOL THEN tok ELSE SubSeq(tok, 1, offset - 1)

(* Scalar branches that look at the next token first and refuse it as a   *)
(* value when it matches a declared argument.                             *)
ParseSingleUnlessFlag(av, as, idx, j, match) ==
    IF IsAssign(match)
    THEN SingleResult(ParseValue(TypeBranch(as[j].flags),
                                 StrFrom(av[idx + 1], AssignOffset(match))),
                      as, idx, j, idx, InvalidKind(TypeBranch(as[j].flags)),
                      AssignShown(av[idx + 1], TypeBranch(as[j].flags),
                                  AssignOffset(match)))
    ELSE IF idx + 1 >= Len(av) \/ AnyArgMatches(as, av[idx + 2])
    THEN Parsed(FALSE, as, idx, <<Prt("novalue", av[idx + 1])>>)
    ELSE SingleResult(ParseValue(TypeBranch(as[j].flags), av[idx + 2]),
                      as, idx, j, idx + 1,
                      InvalidKind(TypeBranch(as[j].flags)), av[idx + 1])

(* The String, Bool, Int and Double branches: the value is the text after *)
(* the '=' of an assignment token, or else the next token of argv.        *)
\* a variant without the next_index >= argc check: what lies behind the
\* last token is read as an empty string
ParseSingleUnguarded(av, as, idx, j, match, type) ==
    IF IsAssign(match)
    THEN SingleResult(ParseValue(type, StrFrom(av[idx + 1], AssignOffset(match))),
                      as, idx, j, idx, InvalidKind(type),
                      AssignShown(av[idx + 1], type, AssignOffset(match)))
    ELSE SingleResult(ParseValue(type, IF idx + 1 >= Len(av) THEN <<>>
                                       ELSE av[idx + 2]),
                      as, idx, j, idx + 1, InvalidKind(type), av[idx + 1])

\* a variant that stores the next token and leaves *argv_index on the flag
ParseSingleKeepingIndex(av, as, idx, j, match, type) ==
    IF IsAssign(match)
    THEN SingleResult(ParseValue(type, StrFrom(av[idx + 1], AssignOffset(match))),
                      as, idx, j, idx, InvalidKind(type),
                      AssignShown(av[idx + 1], type, AssignOffset(match)))
    ELSE IF idx + 1 >= Len(av)
    THEN Parsed(FALSE, as, idx, <<Prt("novalue", av[idx + 1])>>)
    ELSE SingleResult(ParseValue(type, av[idx + 2]),
                      as, idx, j, idx, InvalidKind(type), av[idx + 1])

ParseSingleAs(av, as, idx, j, match, type) ==
    IF IsAssign(match)
    THEN SingleResult(ParseValue(type, StrFrom(av[idx + 1], AssignOffset(match))),
                      as, idx, j, idx, InvalidKind(type),
                      AssignShown(av[idx + 1], type, AssignOffset(match)))
    ELSE IF idx + 1 >= Len(av)
    THEN Parsed(FALSE, as, idx, <<Prt("novalue", av[idx + 1])>>)
    ELSE SingleResult(ParseValue(type, av[idx + 2]),
                      as, idx, j, idx + 1, InvalidKind(type), av[idx + 1])

ParseSingle(av, as, idx, j, match) ==
    ParseSingleAs(av, as, idx, j, match, TypeBranch(as[j].flags))

(* Array branches that hand the token after the flag to the loop, which   *)
(* leaves it to the outer scan when it matches an argument.               *)
ParseArrayFromLoop(av, as, idx, j) ==
    IF idx + 1 >= Len(av)
    THEN Parsed(FALSE, as, idx, <<Prt("novalue", av[idx + 1])>>)
    ELSE Slurp(av, [as EXCEPT ![j].has_value = TRUE], j,
               TypeBranch(as[j].flags), av[idx + 1], idx + 1, idx)

\* a variant that takes the text behind '=' of the flag token as the
\* first element
ParseArrayTakingAssigned(av, as, idx, j) ==
    LET tok == av[idx + 1]
        E   == {p \in 1 .. Len(tok) : tok[p] = "="}
        p0  == CHOOSE p \in E : \A q \in E : p <= q
    IN  IF E # {}
        THEN Element(ParseValue(TypeBranch(as[j].flags),
                                SubSeq(tok, p0 + 1, Len(tok))),
                     av, as, j, TypeBranch(as[j].flags), tok, idx, idx)
        ELSE IF idx + 1 >= Len(av)
        THEN Parsed(FALSE, as, idx, <<Prt("novalue", tok)>>)
        ELSE Element(ParseValue(TypeBranch(as[j].flags), av[idx + 2]),
                     av, as, j, TypeBranch(as[j].flags), tok, idx + 1, idx)

(* The four array branches: the next token is the first element whatever  *)
(* it is, then the loop takes the tokens that match no argument.          *)
ParseArray(av, as, idx, j) ==
    IF idx + 1 >= Len(av)
    THEN Parsed(FALSE, as, idx, <<Prt("novalue", av[idx + 1])>>)
    ELSE Element(ParseValue(TypeBranch(as[j].flags), av[idx + 2]),
                 av, as, j, TypeBranch(as[j].flags), av[idx + 1], idx + 1, idx)

(* _xo_args_try_parse_arg(context, &i, context->args[j], &match) with     *)
(* *argv_index = idx on entry: whether it returned true, the arguments    *)
(* afterwards, *argv_index afterwards and what it printed.                *)
\* a variant in which a switch takes a following word as its value
ParseSwitchTakingWord(av, as, idx, j) ==
    Parsed(TRUE, [as EXCEPT ![j].has_value = TRUE],
           IF idx + 1 < Len(av) /\ ~AnyArgMatches(as, av[idx + 2])
           THEN idx + 1 ELSE idx,
           <<>>)

\* a variant that refuses a switch token with a value attached
ParseSwitchRefusingValue(av, as, idx, j) ==
    IF \E p \in 1 .. Len(av[idx + 1]) : av[idx + 1][p] = "="
    THEN Parsed(FALSE, as, idx, <<Prt("invalid_bool", av[idx + 1])>>)
    ELSE Parsed(TRUE, [as EXCEPT ![j].has_value = TRUE], idx, <<>>)

\* lines 1166-1172: a switch is set and *argv_index stays on the flag
ParseSwitch(av, as, idx, j) ==
    Parsed(TRUE, [as EXCEPT ![j].has_value = TRUE], idx, <<>>)

\* a variant that reads the value first and looks for a duplicate afterwards
try_parse_arg_value_first(av, as, idx, j, match) ==
    LET type == TypeBranch(as[j].flags)
        dup == Parsed(FALSE, as, idx, <<Prt("multiple", av[idx + 1])>>)
    IN  IF type \in ScalarTypes
        THEN IF ~ParseSingle(av, as, idx, j, match).ok
             THEN ParseSingle(av, as, idx, j, match)
             ELSE IF IsDuplicate(as[j]) THEN dup
             ELSE ParseSingle(av, as, idx, j, match)
        ELSE IF IsDuplicate(as[j]) THEN dup
        ELSE IF type = XO_ARGS_TYPE_SWITCH THEN ParseSwitch(av, as, idx, j)
        ELSE IF type \in ArrayTypes THEN ParseArray(av, as, idx, j)
        ELSE Parsed(TRUE, as, idx, <<>>)

_xo_args_try_parse_arg(av, as, idx, j, match) ==
    LET type == TypeBranch(as[j].flags)
    IN  IF IsDuplicate(as[j])
        THEN Parsed(FALSE, as, idx, <<Prt("multiple", av[idx + 1])>>)
        ELSE IF type \in ScalarTypes THEN ParseSingle(av, as, idx, j, match)
        ELSE IF type = XO_ARGS_TYPE_SWITCH THEN ParseSwitch(av, as, idx, j)
        ELSE IF type \in ArrayTypes THEN ParseArray(av, as, idx, j)
        ELSE Parsed(TRUE, as, idx, <<>>)

----------------------------------------------------------------------------
(* xo_args_print_help and _xo_print_try_help: the sequence of print calls; *)
(* the application name, the documentation block and the column widths    *)
(* are left out.                                                          *)

\* a failure path that prints no hint
print_no_hint == <<>>

_xo_print_try_help == <<Prt("hint", <<>>)>>

IsRequired(arg) == XO_ARGS_ARG_REQUIRED \in arg.flags

RECURSIVE HelpLines(_, _, _)
HelpLines(as, kind, required) ==
    IF as = <<>> THEN <<>>
    ELSE (IF IsRequired(Head(as)) = required
          THEN <<Prt(kind, Head(as).name)>> ELSE <<>>)
         \o HelpLines(Tail(as), kind, required)

xo_args_print_help(as, version) ==
    LET any_required == \E k \in 1 .. Len(as) : IsRequired(as[k])
        any_optional == \E k \in 1 .. Len(as) : ~IsRequired(as[k])
    IN  <<Prt("banner", IF version = NULL THEN <<>> ELSE version)>>
        \o <<Prt("usage", <<>>)>>
        \o HelpLines(as, "usage_required", TRUE)
        \o (IF any_optional THEN <<Prt("usage_option", <<>>)>> ELSE <<>>)
        \o (IF any_required /\ any_optional
            THEN <<Prt("required_arguments", <<>>)>> ELSE <<>>)
        \o (IF any_required THEN HelpLines(as, "arg_help", TRUE) ELSE <<>>)
        \o (IF any_optional /\ any_required
            THEN <<Prt("optional_arguments", <<>>)>> ELSE <<>>)
        \o (IF any_optional THEN HelpLines(as, "arg_help", FALSE) ELSE <<>>)

----------------------------------------------------------------------------
(* xo_args_submit, in three parts: the two implicit declarations, one     *)
(* iteration of the scan loop, and the checks after the loop.             *)

s_help == <<"h","e","l","p">>
s_h == <<"h">>
s_version == <<"v","e","r","s","i","o","n">>
s_v == <<"v">>

\* lines 1620-1632: declare help, and version when a version string exists
SubmitDeclare(as, version) ==
    LET d1 == xo_args_declare_arg(as, s_help, s_h, {XO_ARGS_TYPE_SWITCH})
        d2 == IF version # NULL
              THEN xo_args_declare_arg(d1.args, s_version, s_v,
                                       {XO_ARGS_TYPE_SWITCH})
              ELSE [args |-> d1.args, out |-> <<>>, asserts |-> 0, ret |-> 0]
    IN  [args |-> d2.args, out |-> d1.out \o d2.out,
         asserts |-> d1.asserts + d2.asserts,
         arg_help |-> d1.ret, arg_version |-> d2.ret]

Step(ret, as, idx, o, ev) ==
    [ret |-> ret, args |-> as, i |-> idx, out |-> o, ev |-> ev]

Event(idx, kind, j, last, ok) ==
    [idx |-> idx, kind |-> kind, arg |-> j, last |-> last, ok |-> ok]

\* the arguments, in declaration order, that the token matches
Matching(as, str) ==
    {j \in 1 .. Len(as) : _xo_args_arg_matches_input(as[j], str).matched}

\* lines 1640-1654: a token of one character, or without a leading '-'
Unknown(av, as, idx) ==
    Step("false", as, idx,
         <<Prt("unknown", av[idx + 1])>> \o _xo_print_try_help,
         Event(idx, "unknown", 0, idx, FALSE))

\* a variant of the loop in which a parsed flag is not followed by ++i
ScanResultStaying(r, idx, j) ==
    IF ~r.ok
    THEN Step("false", r.args, r.i, r.out \o _xo_print_try_help,
              Event(idx, "flag", j, r.i, FALSE))
    ELSE Step("continue", r.args, r.i, <<>>,
              Event(idx, "flag", j, r.i, TRUE))

\* lines 1664-1673: after _xo_args_try_parse_arg gave r for argument j
ScanResult(r, idx, j) ==
    IF ~r.ok
    THEN Step("false", r.args, r.i, r.out \o _xo_print_try_help,
              Event(idx, "flag", j, r.i, FALSE))
    ELSE Step("continue", r.args, r.i + 1, <<>>,
              Event(idx, "flag", j, r.i, TRUE))

\* lines 1659-1675: the token goes to argument j, the first that matches
Dispatch(av, as, idx, j) ==
    ScanResult(_xo_args_try_parse_arg(av, as, idx, j,
                   _xo_args_arg_matches_input(as[j], av[idx + 1])),
               idx, j)

\* a variant of the loop body that reports an empty token
ScanIterReportingEmpty(av, as, idx) ==
    IF Len(av[idx + 1]) <= 1 \/ av[idx + 1][1] # "-"
    THEN Unknown(av, as, idx)
    ELSE IF Matching(as, av[idx + 1]) = {}
    THEN Unknown(av, as, idx)
    ELSE Dispatch(av, as, idx, SetMin(Matching(as, av[idx + 1])))

(* lines 1634-1687, the loop body for i = idx: ret is "continue" when the *)
(* loop goes on (i is then the index after the ++i) and "false" when      *)
(* submit returned false.                                                 *)
ScanIter(av, as, idx) ==
    IF Len(av[idx + 1]) = 0
    THEN Step("continue", as, idx + 1, <<>>, Event(idx, "skip", 0, idx, TRUE))
    ELSE IF Len(av[idx + 1]) = 1 \/ av[idx + 1][1] # "-"
    THEN Unknown(av, as, idx)
    ELSE IF Matching(as, av[idx + 1]) = {}
    THEN Unknown(av, as, idx)
    ELSE Dispatch(av, as, idx, SetMin(Matching(as, av[idx + 1])))

\* a required check that looks at the single-valued arguments only
FirstMissingSingle(as) ==
    LET S == {k \in 1 .. Len(as) :
                 /\ XO_ARGS_ARG_REQUIRED \in as[k].flags
                 /\ ~_xo_args_arg_flag_is_array(as[k].flags)
                 /\ ~as[k].has_value}
    IN  IF S = {} THEN 0 ELSE SetMin(S)

\* a variant that picks the last required argument without a value
LastMissing(as) ==
    LET S == {k \in 1 .. Len(as) : IsRequired(as[k]) /\ ~as[k].has_value}
    IN  IF S = {} THEN 0 ELSE CHOOSE k \in S : \A m \in S : m <= k

\* the first required argument without a value, 0 when there is none
FirstMissing(as) ==
    LET S == {k \in 1 .. Len(as) : IsRequired(as[k]) /\ ~as[k].has_value}
    IN  IF S = {} THEN 0 ELSE SetMin(S)

\* the checks after the loop with the required check done first
SubmitFinishRequiredFirst(as, version, h_help, h_version) ==
    LET g1 == xo_args_try_get_bool(as, h_help, FALSE)
        g2 == IF version # NULL
              THEN xo_args_try_get_bool(as, h_version, FALSE)
              ELSE Got(FALSE, FALSE, 0)
        m == FirstMissing(as)
    IN  IF m # 0
        THEN [ret |-> FALSE,
              out |-> <<Prt("required", as[m].name)>> \o _xo_print_try_help,
              asserts |-> g1.asserts + g2.asserts]
        ELSE IF (g1.ret /\ g1.out) \/ (g2.ret /\ g2.out)
        THEN [ret |-> FALSE, out |-> xo_args_print_help(as, version),
              asserts |-> g1.asserts + g2.asserts]
        ELSE [ret |-> TRUE, out |-> <<>>,
              asserts |-> g1.asserts + g2.asserts]

\* lines 1689-1725: the help and version switches, then the required check
SubmitFinish(as, version, h_help, h_version) ==
    LET g1 == xo_args_try_get_bool(as, h_help, FALSE)
        g2 == IF version # NULL
              THEN xo_args_try_get_bool(as, h_version, FALSE)
              ELSE Got(FALSE, FALSE, 0)
        m == FirstMissing(as)
    IN  IF g1.ret /\ g1.out
        THEN [ret |-> FALSE, out |-> xo_args_print_help(as, version),
              asserts |-> g1.asserts]
        ELSE IF g2.ret /\ g2.out
        THEN [ret |-> FALSE, out |-> xo_args_print_help(as, version),
              asserts |-> g1.asserts + g2.asserts]
        ELSE IF m # 0
        THEN [ret |-> FALSE,
              out |-> <<Prt("required", as[m].name)>> \o _xo_print_try_help,
              asserts |-> g1.asserts + g2.asserts]
        ELSE [ret |-> TRUE, out |-> <<>>,
              asserts |-> g1.asserts + g2.asserts]

(* xo_args_submit as one function of argv, the version string and the     *)
(* arguments declared so far: the same three parts run to the return.     *)
RECURSIVE ScanFrom(_, _, _, _)
ScanFrom(av, as, idx, o) ==
    IF idx >= Len(av) THEN [ret |-> "continue", args |-> as, out |-> o]
    ELSE LET r == ScanIter(av, as, idx)
         IN  IF r.ret = "false"
             THEN [ret |-> "false", args |-> r.args, out |-> o \o r.out]
             ELSE ScanFrom(av, r.args, r.i, o \o r.out)

xo_args_submit(av, version, as) ==
    LET d == SubmitDeclare(as, version)
        sc == ScanFrom(av, d.args, 1, d.out)
        f == SubmitFinish(sc.args, version, d.arg_help, d.arg_version)
    IN  IF sc.ret = "false"
        THEN [ret |-> FALSE, args |-> sc.args, out |-> sc.out]
        ELSE [ret |-> f.ret, args |-> sc.args, out |-> sc.out \o f.out]

----------------------------------------------------------------------------
(* Memory.  The context's alloc, realloc and free functions are the       *)
(* counting ones of the test programs; blocks are numbered in the order   *)
(* they are handed out and 0 is the NULL pointer.  A memory state m holds *)
(* the allocator's live blocks, the blocks given to free and to realloc,  *)
(* and the context's own bookkeeping.                                     *)

test_alloc(m) == [m EXCEPT !.live = @ \cup {m.next}, !.next = @ + 1]

\* the old block is given back and a new one is handed out
test_realloc(m, b) ==
    [m EXCEPT !.live = (@ \ {b}) \cup {m.next}, !.next = @ + 1,
              !.moved = Append(@, b)]

test_free(m, b) == [m EXCEPT !.live = @ \ {b}, !.freed = Append(@, b)]

\* the block the last _xo_args_tracked_alloc returned
Newest(m) == m.allocations[Len(m.allocations)]

GrowAllocations(m) ==
    [test_realloc(m, m.allocations_ptr)
        EXCEPT !.allocations_ptr = m.next, !.allocations_reserved = 2 * @]

TrackNew(m) == [test_alloc(m) EXCEPT !.allocations = Append(@, m.next)]

_xo_args_tracked_alloc(m) ==
    TrackNew(IF m.allocations_reserved = Len(m.allocations)
             THEN GrowAllocations(m) ELSE m)

TrackedAt(m, b) == {k \in 1 .. Len(m.allocations) : m.allocations[k] = b}

\* a variant that tracks the new block at the end of the list and leaves
\* the entry of the old one
tracked_realloc_appending(m, b) ==
    IF TrackedAt(m, b) = {} THEN m
    ELSE [test_realloc(m, b) EXCEPT !.allocations = Append(@, m.next)]

\* the new block is m.next; an untracked b fails an assertion and gives NULL
_xo_args_tracked_realloc(m, b) ==
    IF TrackedAt(m, b) = {} THEN m
    ELSE [test_realloc(m, b) EXCEPT !.allocations[SetMin(TrackedAt(m, b))] = m.next]

EmptyMem ==
    [live |-> {}, next |-> 1, freed |-> <<>>, moved |-> <<>>, ctx |-> 0,
     allocations_ptr |-> 0, allocations |-> <<>>, allocations_reserved |-> 0,
     args_ptr |-> 0, args_reserved |-> 0, arrays |-> <<>>]

CreateCtx(m) == [test_alloc(m) EXCEPT !.ctx = m.next]

CreateAllocations(m) ==
    [test_alloc(m) EXCEPT !.allocations_ptr = m.next,
                          !.allocations_reserved = 8]

\* a tracked copy of a string, unless the string is NULL
CopyString(m, str) == IF str = NULL THEN m ELSE _xo_args_tracked_alloc(m)

CreateArgs(m) == [m EXCEPT !.args_ptr = Newest(m), !.args_reserved = 4]

(* _xo_args_basename, in the build with "/" as the only path separator:   *)
(* the search for the last separator goes down from the end and stops at  *)
(* path itself without looking at path[0]; basename_end starts on         *)
(* basename_start, so the length copied is at least 1, and a copy that    *)
(* starts on the terminating NUL is the empty string.                     *)
_xo_args_basename(path) ==
    IF path = NULL \/ Len(path) = 0 THEN NULL
    ELSE LET end == Len(path)
             seps == {it \in 1 .. end : CharAt(path, it) = "/"}
             basename_start ==
                 IF seps = {} THEN 0
                 ELSE LET it == CHOOSE x \in seps : \A y \in seps : y <= x
                      IN  IF it + 1 <= end THEN it + 1 ELSE end
             dots == {it \in basename_start .. end - 1 : CharAt(path, it) = "."}
             stop == IF dots = {} THEN end ELSE SetMin(dots)
             basename_end == IF stop = basename_start THEN basename_start
                             ELSE stop - 1
         IN  IF basename_start = end THEN <<>>
             ELSE SubSeq(path, basename_start + 1, basename_end + 1)

\* lines 957-968: the application name when the host gives no app_name
DefaultAppName(av) ==
    IF _xo_args_basename(av[1]) = NULL THEN <<"a","p","p">>
    ELSE _xo_args_basename(av[1])

\* app_name is NULL: the name is copied out of argv[0] unless that is
\* empty; then the version string and the argument list
xo_args_create_ctx_advanced(av, version) ==
    CreateArgs(_xo_args_tracked_alloc(
        CopyString(CopyString(CreateAllocations(CreateCtx(EmptyMem)),
                              IF Len(av[1]) = 0 THEN NULL ELSE av[1]),
                   version)))

\* lines 1870-1877: the argument list doubles when it is full
GrowArgs(m) ==
    IF m.args_reserved = Len(m.arrays)
    THEN [_xo_args_tracked_realloc(m, m.args_ptr)
             EXCEPT !.args_ptr = m.next, !.args_reserved = 2 * @]
    ELSE m

\* array_reserved = 0 and array = NULL until the first push
AddArg(m) == [m EXCEPT !.arrays = Append(@, [ptr |-> 0, reserved |-> 0])]

\* what a declaration that returned ret allocated: nothing when it was
\* refused, else the argument, the list slot, and copies of the name, the
\* short name and the description (no host modelled here gives a value_tip)
DeclareMem(m, ret, short_name, description) ==
    IF ret = 0 THEN m
    ELSE CopyString(CopyString(_xo_args_tracked_alloc(
                                   AddArg(GrowArgs(_xo_args_tracked_alloc(m)))),
                               short_name),
                    description)

InitArray(m, j) == [m EXCEPT !.arrays[j] = [ptr |-> Newest(m), reserved |-> 2]]

_xo_args_arg_array_init(m, j) == InitArray(_xo_args_tracked_alloc(m), j)

GrowArray(m, j, array_size) ==
    IF m.arrays[j].reserved = array_size
    THEN [_xo_args_tracked_realloc(m, m.arrays[j].ptr)
             EXCEPT !.arrays[j] = [ptr |-> m.next,
                                   reserved |-> 2 * m.arrays[j].reserved]]
    ELSE m

\* the memory side of _xo_args_arg_array_push on argument j
PushMem(m, j, array_size) ==
    GrowArray(IF m.arrays[j].reserved = 0
              THEN _xo_args_arg_array_init(m, j) ELSE m, j, array_size)

\* count elements pushed one after the other; a string element is copied
\* into a block of its own first
RECURSIVE PushAll(_, _, _, _, _)
PushAll(m, j, array_size, count, strings) ==
    IF count = 0 THEN m
    ELSE PushAll(PushMem(IF strings THEN _xo_args_tracked_alloc(m) ELSE m,
                         j, array_size),
                 j, array_size + 1, count - 1, strings)

\* what _xo_args_try_parse_arg allocates when it takes argument j from
\* before to after: the copy of a String value, or the pushed elements
ParseMem(m, before, after, j) ==
    IF j = 0 THEN m
    ELSE IF XO_ARGS_TYPE_STRING \in before[j].flags
    THEN IF after[j].has_value /\ ~before[j].has_value
         THEN _xo_args_tracked_alloc(m) ELSE m
    ELSE PushAll(m, j, Len(before[j].array),
                 Len(after[j].array) - Len(before[j].array),
                 XO_ARGS_TYPE_STRING_ARRAY \in before[j].flags)

RECURSIVE FreeAll(_, _)
FreeAll(m, k) ==
    IF k > Len(m.allocations) THEN m
    ELSE FreeAll(test_free(m, m.allocations[k]), k + 1)

\* a variant that forgets the list of tracked allocations itself
destroy_leaks_list(m) == test_free(FreeAll(m, 1), m.ctx)

xo_args_destroy_ctx(m) ==
    test_free(test_free(FreeAll(m, 1), m.allocations_ptr), m.ctx)

----------------------------------------------------------------------------
(* The host program: a context is created, then the host makes its calls  *)
(* in order, as the main functions of src/examples do.                    *)

Call(op, name, short_name, flags) ==
    [op |-> op, name |-> name, short_name |-> short_name, flags |-> flags]

Declare(name, short_name, flags) == Call("declare", name, short_name, flags)
Submit == Call("submit", NULL, NULL, {})
Destroy == Call("destroy", NULL, NULL, {})

NextCall(op) == pc = "host" /\ host # <<>> /\ Head(host).op = op

\* the effects of a declaration that gave r
Declared(r) ==
    /\ args' = r.args
    /\ out' = out \o r.out
    /\ asserts' = asserts + r.asserts
    /\ handles' = Append(handles, r.ret)
    /\ mem' = DeclareMem(mem, r.ret, Head(host).short_name, NULL)

DeclareArg ==
    /\ NextCall("declare")
    /\ Declared(xo_args_declare_arg(args, Head(host).name,
                                    Head(host).short_name, Head(host).flags))
    /\ host' = Tail(host)
    /\ done' = Append(done, Head(host))
    /\ UNCHANGED <<create, argv, app_version, pc, i, arg_help, arg_version, result,
                   submitted, trace, out_before>>

\* the effects of the implicit declarations d
Began(d) ==
    /\ args' = d.args
    /\ out' = out \o d.out
    /\ asserts' = asserts + d.asserts
    /\ arg_help' = d.arg_help
    /\ arg_version' = d.arg_version
    /\ mem' = DeclareMem(DeclareMem(mem, d.arg_help, s_h, <<"s","h","o","w">>),
                         d.arg_version, s_v, <<"s","h","o","w","s">>)

SubmitBegin ==
    /\ NextCall("submit")
    /\ Began(SubmitDeclare(args, app_version))
    /\ i' = 1
    /\ pc' = "scan"
    /\ result' = "none"
    /\ trace' = <<>>
    /\ out_before' = [out |-> Len(out), asserts |-> asserts]
    /\ host' = Tail(host)
    /\ done' = Append(done, Head(host))
    /\ UNCHANGED <<create, argv, app_version, handles, submitted>>

\* the effects of one iteration r of the scan loop
\* a variant in which the loop goes on after a failed iteration
ScannedGoingOn(r) ==
    /\ args' = r.args
    /\ out' = out \o r.out
    /\ i' = IF r.ret = "false" THEN r.ev.last + 1 ELSE r.i
    /\ trace' = Append(trace, r.ev)
    /\ mem' = ParseMem(mem, args, args', trace'[Len(trace')].arg)
    /\ result' = IF r.ret = "false" THEN "false" ELSE result
    /\ pc' = pc

Scanned(r) ==
    /\ args' = r.args
    /\ out' = out \o r.out
    /\ i' = r.i
    /\ trace' = Append(trace, r.ev)
    /\ mem' = ParseMem(mem, args, args', trace'[Len(trace')].arg)
    /\ IF r.ret = "false"
       THEN result' = "false" /\ pc' = "host"
       ELSE result' = result /\ pc' = pc

ScanToken ==
    /\ pc = "scan"
    /\ i < Len(argv)
    /\ Scanned(ScanIter(argv, args, i))
    /\ UNCHANGED <<create, argv, app_version, asserts, host, handles, arg_help,
                   arg_version, submitted, out_before, done>>

\* the effects of the checks f after the loop
Finished(f) ==
    /\ out' = out \o f.out
    /\ asserts' = asserts + f.asserts
    /\ result' = IF f.ret THEN "true" ELSE "false"

SubmitReturn ==
    /\ pc = "scan"
    /\ i >= Len(argv)
    /\ Finished(SubmitFinish(args, app_version, arg_help, arg_version))
    /\ pc' = "host"
    /\ UNCHANGED <<create, argv, app_version, args, host, handles, i, arg_help,
                   arg_version, submitted, trace, out_before, mem, done>>

DestroyCtx ==
    /\ NextCall("destroy")
    /\ pc' = "destroyed"
    /\ mem' = xo_args_destroy_ctx(mem)
    /\ host' = Tail(host)
    /\ done' = Append(done, Head(host))
    /\ UNCHANGED <<create, argv, app_version, args, out, asserts, handles, i,
                   arg_help, arg_version, result, submitted, trace,
                   out_before>>

Next == DeclareArg \/ SubmitBegin \/ ScanToken \/ SubmitReturn \/ DestroyCtx

----------------------------------------------------------------------------
(* Inputs: the argv given to xo_args_create_ctx_advanced and the host's   *)
(* declarations, drawn from small families.                               *)

s_foo == <<"f","o","o">>
s_f == <<"f">>
s_bar == <<"b","a","r">>
s_host == <<"h","o","s","t">>
s_a == <<"a">>
s_dash_ab == <<"-","a","b">>
s_prog == <<"/","m","/","t",".","e">>

Flag2(name) == <<"-","-">> \o name
Flag1(short_name) == <<"-">> \o short_name
Assign(flag, value) == flag \o <<"=">> \o value

v_1 == <<"1">>
v_a == <<"a">>

MaxScalarArgv == 3
MaxArrayArgv == 3
MaxMixedArgv == 5
MaxHelpArgv == 2
MaxQuirkArgv == 2
MaxDeclArgv == 1
MaxCreateArgv == 3
MaxValueArgv == 2

RECURSIVE SeqsUpTo(_, _)
SeqsUpTo(T, n) ==
    IF n = 0 THEN {<<>>}
    ELSE LET S == SeqsUpTo(T, n - 1)
         IN  S \cup {Append(q, t) : q \in {x \in S : Len(x) = n - 1}, t \in T}

Argvs(T, n) == {<<s_prog>> \o q : q \in SeqsUpTo(T, n)}

Req(b) == IF b THEN {XO_ARGS_ARG_REQUIRED} ELSE {}

v_true == <<"t","r","u","e">>

\* a value token the parser of the type accepts
GoodValue(t) ==
    IF t \in {XO_ARGS_TYPE_BOOL, XO_ARGS_TYPE_BOOL_ARRAY} THEN v_true ELSE v_1

\* one scalar or switch argument foo / f, with or without a switch bar
ScalarHosts(t) ==
    {<<Declare(s_foo, s_f, {t} \cup Req(b))>> \o second \o <<Submit, Destroy>> :
        b \in BOOLEAN,
        second \in {<<>>, <<Declare(s_bar, NULL, {XO_ARGS_TYPE_SWITCH})>>}}

ScalarTokens(t) ==
    {Flag2(s_foo), Assign(Flag1(s_f), GoodValue(t)), Flag2(s_bar),
     GoodValue(t), v_a}

\* one array argument foo, optional or required, or optional with a string bar
ArrayHosts(t) ==
    {<<Declare(s_foo, NULL, {t} \cup Req(b)), Submit, Destroy>> : b \in BOOLEAN}
    \cup {<<Declare(s_foo, NULL, {t}),
            Declare(s_bar, NULL, {XO_ARGS_TYPE_STRING}), Submit, Destroy>>}

ArrayTokens(t) == {Flag2(s_foo), Flag2(s_bar), Flag1(s_h), GoodValue(t), v_a}

\* an array argument foo and a switch bar, on longer command lines
MixedHosts(t) ==
    {<<Declare(s_foo, NULL, {t}), Declare(s_bar, NULL, {XO_ARGS_TYPE_SWITCH}),
       Submit, Destroy>>}

MixedTokens(t) == {Flag2(s_foo), Flag2(s_bar), GoodValue(t), v_a}

\* hosts whose own names do or do not collide with help / h or version
HelpHosts ==
    {decls \o <<Submit, Destroy>> :
        decls \in {<<>>,
                   <<Declare(s_foo, s_f, {XO_ARGS_TYPE_STRING, XO_ARGS_ARG_REQUIRED})>>,
                   <<Declare(s_help, NULL, {XO_ARGS_TYPE_STRING})>>,
                   <<Declare(s_help, NULL, {XO_ARGS_TYPE_SWITCH})>>,
                   <<Declare(s_host, s_h, {XO_ARGS_TYPE_STRING, XO_ARGS_ARG_REQUIRED})>>,
                   <<Declare(s_version, NULL, {XO_ARGS_TYPE_SWITCH})>>,
                   <<Declare(s_foo, s_f, {XO_ARGS_TYPE_STRING, XO_ARGS_ARG_REQUIRED}),
                     Declare(s_host, NULL, {XO_ARGS_TYPE_INT, XO_ARGS_ARG_REQUIRED})>>,
                   <<Declare(s_foo, s_f, {XO_ARGS_TYPE_SWITCH}),
                     Declare(s_foo, NULL, {XO_ARGS_TYPE_INT})>>}}

HelpTokens ==
    {Flag2(s_help), Flag1(s_h), Flag2(s_version), Flag1(s_v), Flag2(s_foo), v_1,
     Assign(Flag2(s_help), v_a), Assign(Flag2(s_foo), <<"f","a","l","s","e">>)}

\* a short name that starts with a hyphen and continues the name
QuirkHosts ==
    {<<Declare(s_a, s_dash_ab, {t}), Submit, Destroy>> :
        t \in {XO_ARGS_TYPE_STRING, XO_ARGS_TYPE_INT}}

\* with the empty token and the lone hyphen
QuirkTokens ==
    {Flag2(s_a), Flag1(s_dash_ab), Assign(Flag2(s_a), v_1),
     Assign(Flag1(s_dash_ab), v_1), v_1, <<>>, <<"-">>}

s_Foo == <<"F","o","o">>
s_baz == <<"b","a","z">>

\* declarations that repeat a name or a short name, differ only in case,
\* carry no or two type bits, or have a character outside [A-Za-z0-9-]
Decls ==
    <<Declare(s_foo, s_f, {XO_ARGS_TYPE_STRING_ARRAY}),
      Declare(s_foo, NULL, {XO_ARGS_TYPE_INT}),
      Declare(s_bar, s_f, {}),
      Declare(s_Foo, <<"F">>, {XO_ARGS_ARG_REQUIRED}),
      Declare(s_baz, NULL, {XO_ARGS_TYPE_INT, XO_ARGS_TYPE_BOOL}),
      Declare(<<"f","!">>, NULL, {XO_ARGS_TYPE_SWITCH, XO_ARGS_ARG_REQUIRED}),
      Declare(<<"!","f">>, NULL, {XO_ARGS_TYPE_SWITCH}),
      Declare(s_baz, <<"b","!">>, {XO_ARGS_TYPE_DOUBLE}),
      Declare(<<"q","u","x">>, <<"!","q">>, {XO_ARGS_TYPE_BOOL})>>

\* the calls of q at the positions in S, in order
RECURSIVE Pick(_, _, _)
Pick(q, S, n) ==
    IF n = 0 THEN <<>>
    ELSE Pick(q, S, n - 1) \o (IF n \in S THEN <<q[n]>> ELSE <<>>)

\* any selection of the declarations, with or without a call of submit,
\* or with one more declaration after it
DeclHosts ==
    {Pick(Decls, S, Len(Decls)) \o rest :
        S \in SUBSET (1 .. Len(Decls)),
        rest \in {<<Submit, Destroy>>, <<Destroy>>,
                  <<Submit, Declare(s_host, NULL, {XO_ARGS_TYPE_INT}), Destroy>>}}

DeclTokens == {Flag2(s_foo), Assign(Flag2(s_Foo), v_a), v_a}

\* value texts of the getter tests, and a few more around the same edges
ValueTexts(t) ==
    IF t \in {XO_ARGS_TYPE_BOOL, XO_ARGS_TYPE_BOOL_ARRAY}
    THEN {<<"0">>, L_false, L_False, L_FALSE, <<"1">>, L_true, L_True, L_TRUE,
         <<>>, <<" ">>, <<"t">>, <<"y","e","s">>, <<"1","0">>,
          <<"t","r","u","e","t">>}
    ELSE IF t = XO_ARGS_TYPE_INT
    THEN {
         <<"5","7","0","0","5">>, <<"0","x","0","0","0","0","D","E","A","D">>,
          <<"0","1","5","7","2","5","5">>, <<"+","5","7","0","0","5">>,
          <<"-","0","x","1","0">>, <<"0">>,
          <<"9","2","2","3","3","7","2","0","3","6","8","5","4","7","7","5","8","0","7">>,
          <<"9","2","2","3","3","7","2","0","3","6","8","5","4","7","7","5","8","0","8">>,
          <<"-","9","2","2","3","3","7","2","0","3","6","8","5","4","7","7","5","8","0","8">>,
          <<"-","9","2","2","3","3","7","2","0","3","6","8","5","4","7","7","5","8","0","9">>,
          <<>>, <<"+","+","1">>, <<"1",".","0">>,
          <<"0","x","a","b","c","d","e","f","g">>, <<" ","1">>, <<"0","8">>}
    ELSE {
         <<>>, <<" ","a"," ">>, <<"a","=","b">>, <<"\"","a","\"">>,
          <<"-","x">>}

\* the flag, each text on its own and each text assigned to the flag
ValueTokens(t) ==
    {Flag2(s_foo)} \cup ValueTexts(t)
    \cup {Assign(Flag2(s_foo), v) : v \in ValueTexts(t)}
    \cup IF t = XO_ARGS_TYPE_STRING
         THEN {Assign(Flag1(s_f), v) : v \in ValueTexts(t)} ELSE {}

\* a variant that does not look at the elements of argv
CreateChecksNoElements(argc, argv_null, av) ==
    IF argc < 1
    THEN [ok |-> FALSE, asserts |-> 1, out |-> <<Prt("create_argc", <<>>)>>]
    ELSE IF argv_null
    THEN [ok |-> FALSE, asserts |-> 1, out |-> <<Prt("create_argv", <<>>)>>]
    ELSE [ok |-> TRUE, asserts |-> 0, out |-> <<>>]

\* the checks xo_args_create_ctx_advanced makes before its first allocation
CreateChecks(argc, argv_null, av) ==
    LET IndexText == <<"0", "1", "2", "3", "4">>
    IN
    IF argc < 1
    THEN [ok |-> FALSE, asserts |-> 1,
          out |-> <<Prt("create_argc", IF argc = 0 THEN <<"0">>
                                       ELSE <<"-", IndexText[1 - argc]>>)>>]
    ELSE IF argv_null
    THEN [ok |-> FALSE, asserts |-> 1, out |-> <<Prt("create_argv", <<>>)>>]
    ELSE LET nulls == {n \in 1 .. argc : av[n] = NULL}
         IN  IF nulls = {} THEN [ok |-> TRUE, asserts |-> 0, out |-> <<>>]
             ELSE [ok |-> FALSE, asserts |-> 1,
                   out |-> [n \in 1 .. Cardinality(nulls) |->
                              Prt("create_argv_i",
                                  <<IndexText[CHOOSE m \in nulls :
                                      Cardinality({x \in nulls : x < m}) = n - 1]>>)]]

(* The state after xo_args_create_ctx_advanced(c.argc, c.argv, NULL,      *)
(* version, NULL, alloc, realloc, free, print).  A host that got no       *)
(* context makes no further call.                                         *)
InitCreate(c, r, version, h) ==
    /\ create = [argc |-> c.argc, argv_null |-> c.argv_null, argv |-> c.argv,
                 ret |-> r.ok]
    /\ argv = IF r.ok THEN SubSeq(c.argv, 1, c.argc) ELSE <<>>
    /\ app_version = IF r.ok THEN version ELSE NULL
    /\ host = IF r.ok THEN h ELSE <<>>
    /\ args = <<>>
    /\ out = r.out
    /\ asserts = r.asserts
    /\ handles = <<>>
    /\ pc = "host"
    /\ i = 0
    /\ arg_help = 0
    /\ arg_version = 0
    /\ result = "none"
    /\ submitted = FALSE
    /\ trace = <<>>
    /\ out_before = [out |-> 0, asserts |-> 0]
    /\ done = <<>>
    /\ mem = IF r.ok
             THEN xo_args_create_ctx_advanced(SubSeq(c.argv, 1, c.argc), version)
             ELSE EmptyMem

InitWith(av, version, h) ==
    InitCreate([argc |-> Len(av), argv_null |-> FALSE, argv |-> av],
               CreateChecks(Len(av), FALSE, av), version, h)

\* calls with a bad argc, no argv, or NULL among or after the argc elements
CreateCalls ==
    {[argc |-> argc, argv_null |-> TRUE, argv |-> <<>>] : argc \in -1 .. MaxCreateArgv}
    \cup {[argc |-> c[1], argv_null |-> FALSE, argv |-> c[2]] :
             c \in {d \in (-1 .. MaxCreateArgv)
                          \X SeqsUpTo({s_prog, NULL, Flag2(s_foo), v_a},
                                      MaxCreateArgv) :
                       d[1] <= Len(d[2])}}

\* the families of command lines that exercise the scan loop
InitCommandLines ==
    \/ \E t \in ScalarTypes \cup {XO_ARGS_TYPE_SWITCH} :
          \E av \in Argvs(ScalarTokens(t), MaxScalarArgv), h \in ScalarHosts(t) :
             InitWith(av, NULL, h)
    \/ \E t \in ArrayTypes :
          \E av \in Argvs(ArrayTokens(t), MaxArrayArgv), h \in ArrayHosts(t) :
             InitWith(av, NULL, h)
    \/ \E t \in ArrayTypes :
          \E av \in Argvs(MixedTokens(t), MaxMixedArgv), h \in MixedHosts(t) :
             InitWith(av, NULL, h)
    \/ \E av \in Argvs(HelpTokens, MaxHelpArgv), h \in HelpHosts,
          version \in {NULL, v_1} :
          InitWith(av, version, h)
    \/ \E av \in Argvs(QuirkTokens, MaxQuirkArgv), h \in QuirkHosts :
          InitWith(av, NULL, h)

Init ==
    \/ InitCommandLines
    \/ \E av \in Argvs(DeclTokens, MaxDeclArgv), h \in DeclHosts :
          InitWith(av, NULL, h)
    \/ \E t \in {XO_ARGS_TYPE_STRING, XO_ARGS_TYPE_BOOL, XO_ARGS_TYPE_INT,
                  XO_ARGS_TYPE_BOOL_ARRAY} :
          \E av \in Argvs(ValueTokens(t), MaxValueArgv) :
             InitWith(av, NULL, <<Declare(s_foo, s_f, {t}), Submit, Destroy>>)
    \/ \E c \in CreateCalls, h \in ScalarHosts(XO_ARGS_TYPE_STRING) :
          InitCreate(c, CreateChecks(c.argc, c.argv_null, c.argv), NULL, h)
    \/ \E path \in {<<"/","a","/","b","/","c",".","e">>,
                    <<"/","a","/","b","/","c">>,
                    <<"/","a","/","b","/","c",".","e",".","f">>,
                    <<"/","a","/","b","/","c",".",".","f">>,
                    <<"/","a","/","b","/","c",".",".">>,
                    <<"/","a","/","b","/","c","/">>,
                    <<"/","c">>,
                    <<"c",".","e">>,
                    <<>>,
                    <<"/">>,
                    <<".","e">>},
          rest \in {<<>>, <<v_a>>} :
          InitWith(<<path>> \o rest, NULL,
                   <<Declare(s_foo, s_f, {XO_ARGS_TYPE_STRING}), Submit, Destroy>>)

Spec == Init /\ [][Next]_vars

(* xo_args_submit is one sequential function: once it has been entered    *)
(* the thread that called it goes on executing the loop and the checks    *)
(* after it, so neither stays enabled for ever without being taken.  The  *)
(* loop body can run exactly when the scan index is below argc, so weak   *)
(* fairness of ScanToken is written with that condition in the place of   *)
(* ENABLED <<ScanToken>>_vars.                                            *)
FairSpec ==
    /\ InitCommandLines /\ [][Next]_vars
    /\ []<>(~(pc = "scan" /\ i < Len(argv))) \/ []<><<ScanToken>>_vars
    /\ WF_vars(SubmitReturn)

----------------------------------------------------------------------------
(* Properties.  They read the state the calls above leave behind: the     *)
(* arguments, the print log, the return value and the scan record.        *)

Returned == result # "none"
ScanClean == \A n \in 1 .. Len(trace) : trace[n].ok
HelpSet == arg_help # 0 /\ args[arg_help].has_value
VersionSet == arg_version # 0 /\ args[arg_version].has_value
RequiredArgs == {k \in 1 .. Len(args) : XO_ARGS_ARG_REQUIRED \in args[k].flags}
MissingArgs == {k \in RequiredArgs : ~args[k].has_value}
IsArrayArg(k) == args[k].flags \cap ArrayTypes # {}
IsScalarArg(k) == ~IsArrayArg(k) /\ XO_ARGS_TYPE_SWITCH \notin args[k].flags
MatchesAny(tok) ==
    \E k \in 1 .. Len(args) : _xo_args_arg_matches_input(args[k], tok).matched
ErrorKinds ==
    {"unknown", "multiple", "novalue", "invalid_bool", "invalid_int",
     "invalid_double", "required"}
InvalidKinds == {"invalid_bool", "invalid_int", "invalid_double"}
Hint == Prt("hint", <<>>)

\* the accessor of the argument's own type, called on handle k
Getter(k) ==
    LET t == TypeBranch(args[k].flags)
    IN  IF t = XO_ARGS_TYPE_STRING THEN xo_args_try_get_string(args, k, <<>>)
        ELSE IF t = XO_ARGS_TYPE_INT THEN xo_args_try_get_int(args, k, <<>>)
        ELSE IF t = XO_ARGS_TYPE_DOUBLE THEN xo_args_try_get_double(args, k, <<>>)
        ELSE IF t \in {XO_ARGS_TYPE_BOOL, XO_ARGS_TYPE_SWITCH}
        THEN xo_args_try_get_bool(args, k, FALSE)
        ELSE IF t = XO_ARGS_TYPE_STRING_ARRAY
        THEN xo_args_try_get_string_array(args, k, <<>>)
        ELSE IF t = XO_ARGS_TYPE_INT_ARRAY
        THEN xo_args_try_get_int_array(args, k, <<>>)
        ELSE IF t = XO_ARGS_TYPE_DOUBLE_ARRAY
        THEN xo_args_try_get_double_array(args, k, <<>>)
        ELSE xo_args_try_get_bool_array(args, k, <<>>)

(* C1: when the scan of argv ends without an error and neither the help   *)
(* nor the version switch was set, xo_args_submit returns true exactly    *)
(* when every required argument has a value; a false return for this      *)
(* reason comes with a diagnostic that names a required argument without  *)
(* a value, and after a true return the accessor of each required         *)
(* argument returns true.                                                 *)
C1_RequiredDecidesSubmit ==
    (Returned /\ ScanClean /\ ~HelpSet /\ ~VersionSet) =>
        /\ (result = "true") <=> (MissingArgs = {})
        /\ result = "false" =>
              /\ Len(out) >= 2
              /\ \E k \in MissingArgs :
                    out[Len(out) - 1] = Prt("required", args[k].name)
        /\ result = "true" =>
              \A k \in RequiredArgs : Getter(k).ret /\ Getter(k).asserts = 0

C1_Witness ==
    /\ Returned /\ ScanClean /\ ~HelpSet /\ ~VersionSet
    /\ trace # <<>>
    /\ result = "false"
    /\ \E k \in MissingArgs : IsScalarArg(k)

\* the scan is about to hand the token argv[i] to argument j
Dispatched(j) ==
    /\ pc = "scan" /\ i < Len(argv)
    /\ Len(argv[i + 1]) >= 2 /\ argv[i + 1][1] = "-"
    /\ _xo_args_arg_matches_input(args[j], argv[i + 1]).matched
    /\ \A k \in 1 .. j - 1 :
          ~_xo_args_arg_matches_input(args[k], argv[i + 1]).matched

(* C2: a flag token that goes to a String, Bool, Int, Double or Switch    *)
(* argument which already has a value makes xo_args_submit return false   *)
(* with the "provided multiple times" diagnostic and the hint, and leaves *)
(* the stored values alone; a flag token that goes to an array argument   *)
(* which already has a value never prints that diagnostic, and appends    *)
(* when the token after it is a value of the element type.                *)
C2_DuplicateRejected ==
    [][\A j \in 1 .. Len(args) :
          (Dispatched(j) /\ args[j].has_value) =>
              IF ~IsArrayArg(j)
              THEN /\ result' = "false"
                   /\ pc' = "host"
                   /\ out' = out \o <<Prt("multiple", argv[i + 1]), Hint>>
                   /\ args' = args
              ELSE /\ \A n \in Len(out) + 1 .. Len(out') :
                         out'[n].k # "multiple"
                   /\ (/\ i + 1 < Len(argv)
                       /\ ParseValue(TypeBranch(args[j].flags), argv[i + 2]).ok)
                         => Len(args'[j].array) > Len(args[j].array)]_vars

C2_Witness ==
    /\ Returned /\ result = "false"
    /\ Len(out) >= 2 /\ out[Len(out) - 1].k = "multiple"
    /\ trace # <<>>
    /\ XO_ARGS_TYPE_SWITCH \in args[trace[Len(trace)].arg].flags

\* the C indices of the value tokens that the first n iterations of the
\* scan gave to argument j, in the order they were taken
RECURSIVE ConsumedBy(_, _)
ConsumedBy(j, n) ==
    IF n = 0 THEN <<>>
    ELSE ConsumedBy(j, n - 1)
         \o (IF trace[n].kind = "flag" /\ trace[n].arg = j
             THEN [p \in 1 .. trace[n].last - trace[n].idx |-> trace[n].idx + p]
             ELSE <<>>)

(* C3: an occurrence of an array flag that was scanned without error took *)
(* the token after the flag, then only tokens that match no declared      *)
(* argument, and ended at the end of argv or just before a token that     *)
(* matches a declared argument; that token was not appended and is the    *)
(* next one the scan handles, as a flag.                                  *)
C3_ArrayStopsAtNextFlag ==
    /\ \A n \in 1 .. Len(trace) :
          LET e == trace[n]
          IN  (e.kind = "flag" /\ e.ok /\ IsArrayArg(e.arg)) =>
                 /\ e.last >= e.idx + 1
                 /\ \A p \in e.idx + 2 .. e.last : ~MatchesAny(argv[p + 1])
                 /\ e.last = Len(argv) - 1 \/ MatchesAny(argv[e.last + 2])
                 /\ e.last < Len(argv) - 1 =>
                       IF n < Len(trace)
                       THEN /\ trace[n + 1].idx = e.last + 1
                            /\ trace[n + 1].kind = "flag"
                       ELSE pc = "scan" /\ i = e.last + 1
                 /\ e.last = Len(argv) - 1 =>
                       n = Len(trace) /\ (pc = "scan" => i = Len(argv))
    /\ \A j \in 1 .. Len(args) :
          IsArrayArg(j) =>
              Len(args[j].array) = Len(ConsumedBy(j, Len(trace)))

C3_Witness ==
    \E n \in 1 .. Len(trace) - 1 :
        /\ trace[n].kind = "flag" /\ trace[n].ok /\ IsArrayArg(trace[n].arg)
        /\ trace[n].last >= trace[n].idx + 2
        /\ trace[n + 1].idx = trace[n].last + 1
        /\ trace[n + 1].kind = "flag" /\ trace[n + 1].ok
        /\ Len(args[trace[n].arg].array) = trace[n].last - trace[n].idx

\* the arguments the host declared, as they were before xo_args_submit
UserArgs ==
    [k \in 1 .. Len(args) - (IF arg_help # 0 THEN 1 ELSE 0)
                          - (IF arg_version # 0 THEN 1 ELSE 0) |->
        NewArg(args[k].name, args[k].short_name, args[k].flags)]

\* argv without the token at C index p
Without(av, p) == SubSeq(av, 1, p) \o SubSeq(av, p + 2, Len(av))

(* C4: the array an array argument holds, and its accessor returns, is    *)
(* the sequence of the values of the tokens taken for it, in the order    *)
(* they stand in argv, whatever stood between two occurrences of its      *)
(* flag; and dropping a repeated flag that directly continues the         *)
(* previous occurrence (its first value matching no declared argument)    *)
(* gives the same return value and the same stored values.                *)
C4_ArrayInEncounterOrder ==
    /\ \A j \in 1 .. Len(args) :
          IsArrayArg(j) =>
              LET C == ConsumedBy(j, Len(trace))
                  t == TypeBranch(args[j].flags)
              IN  /\ args[j].array =
                        [q \in 1 .. Len(C) |-> ParseValue(t, argv[C[q] + 1]).value]
                  /\ args[j].has_value =>
                        Getter(j).ret /\ Getter(j).out = args[j].array
    /\ Returned =>
          \A n \in 2 .. Len(trace) :
              (/\ trace[n].kind = "flag" /\ IsArrayArg(trace[n].arg)
               /\ trace[n - 1].arg = trace[n].arg /\ trace[n].ok
               /\ ~MatchesAny(argv[trace[n].idx + 2])) =>
                  LET r == xo_args_submit(Without(argv, trace[n].idx),
                                          app_version, UserArgs)
                  IN  r.ret = (result = "true") /\ r.args = args

C4_Witness ==
    /\ Returned /\ result = "true"
    /\ \E j \in 1 .. Len(args), n \in 3 .. Len(trace) :
          /\ IsArrayArg(j)
          /\ trace[n].arg = j /\ trace[n - 2].arg = j /\ trace[n - 1].arg # j
          /\ Len(args[j].array) >= 2
          /\ args[j].array[1] # args[j].array[2]

(* C5: the token right after an array flag is never handled by the scan   *)
(* as a flag: it is parsed as the first element of that occurrence, and   *)
(* appended when the element type accepts it, also when it matches a      *)
(* declared argument.  For a string array foo, argv --foo --foo gives     *)
(* ["--foo"] and --foo --foo --foo --foo gives ["--foo", "--foo"], and    *)
(* xo_args_submit returns true when no required argument is left without  *)
(* a value.                                                               *)
C5_FirstElementAlwaysTaken ==
    /\ \A n \in 1 .. Len(trace) :
          LET e == trace[n]
              t == TypeBranch(args[e.arg].flags)
          IN  (e.kind = "flag" /\ IsArrayArg(e.arg) /\ e.idx + 1 < Len(argv)) =>
                 /\ \A m \in 1 .. Len(trace) : trace[m].idx # e.idx + 1
                 /\ ParseValue(t, argv[e.idx + 2]).ok =>
                       /\ e.last >= e.idx + 1
                       /\ \E q \in 1 .. Len(args[e.arg].array) :
                             /\ ConsumedBy(e.arg, Len(trace))[q] = e.idx + 1
                             /\ args[e.arg].array[q] =
                                   ParseValue(t, argv[e.idx + 2]).value
                 /\ ~ParseValue(t, argv[e.idx + 2]).ok =>
                       /\ ~e.ok /\ e.last = e.idx
                       /\ out[Len(out) - 1] =
                             Prt(InvalidKind(t), argv[e.idx + 1])
    /\ (Returned /\ Len(args) >= 1
        /\ XO_ARGS_TYPE_STRING_ARRAY \in args[1].flags
        /\ args[1].name = s_foo) =>
          /\ argv = <<s_prog, Flag2(s_foo), Flag2(s_foo)>> =>
                /\ MissingArgs = {} => result = "true"
                /\ args[1].array = <<Flag2(s_foo)>>
          /\ argv = <<s_prog, Flag2(s_foo), Flag2(s_foo), Flag2(s_foo),
                      Flag2(s_foo)>> =>
                /\ MissingArgs = {} => result = "true"
                /\ args[1].array = <<Flag2(s_foo), Flag2(s_foo)>>

C5_Witness ==
    /\ Returned /\ result = "true"
    /\ argv = <<s_prog, Flag2(s_foo), Flag2(s_foo), Flag2(s_foo), Flag2(s_foo)>>
    /\ args[1].array = <<Flag2(s_foo), Flag2(s_foo)>>

\* the token is the bare flag of argument k, with nothing attached
SpaceForm(k, tok) ==
    \/ tok = Flag2(args[k].name)
    \/ args[k].short_name # NULL /\ tok = Flag1(args[k].short_name)

\* no earlier iteration of the scan gave argument trace[n].arg a value
FirstValueAt(n) ==
    \A m \in 1 .. n - 1 : ~(trace[m].arg = trace[n].arg /\ trace[m].ok)

(* C6: when a String, Bool, Int or Double argument without a value is     *)
(* matched by its bare flag, the next token of argv, and only that one,   *)
(* is taken as the value whatever it looks like: it is never scanned as a *)
(* flag, it is stored when the type accepts it and reported as an invalid *)
(* value of the flag otherwise, and the scan goes on with the token after *)
(* it; when the flag is the last token, xo_args_submit returns false with *)
(* the "No value provided" diagnostic.                                    *)
C6_NextTokenIsTheValue ==
    \A n \in 1 .. Len(trace) :
        LET e == trace[n]
            t == TypeBranch(args[e.arg].flags)
            v == ParseValue(t, argv[e.idx + 2])
        IN  (/\ e.kind = "flag" /\ IsScalarArg(e.arg)
             /\ SpaceForm(e.arg, argv[e.idx + 1]) /\ FirstValueAt(n)) =>
               IF e.idx = Len(argv) - 1
               THEN /\ ~e.ok /\ result = "false"
                    /\ ~args[e.arg].has_value
                    /\ out[Len(out) - 1] = Prt("novalue", argv[e.idx + 1])
                    /\ out[Len(out)] = Hint
               ELSE /\ \A m \in 1 .. Len(trace) : trace[m].idx # e.idx + 1
                    /\ IF v.ok
                       THEN /\ e.ok /\ e.last = e.idx + 1
                            /\ args[e.arg].has_value
                            /\ args[e.arg].value = <<v.value>>
                            /\ n < Len(trace) => trace[n + 1].idx = e.idx + 2
                            /\ (n = Len(trace) /\ pc = "scan") => i = e.idx + 2
                       ELSE /\ ~e.ok /\ result = "false"
                            /\ ~args[e.arg].has_value
                            /\ out[Len(out) - 1] =
                                  Prt(InvalidKind(t), argv[e.idx + 1])

C6_Witness ==
    /\ Returned /\ result = "true"
    /\ \E n \in 1 .. Len(trace) :
          /\ IsScalarArg(trace[n].arg) /\ trace[n].last = trace[n].idx + 1
          /\ MatchesAny(argv[trace[n].idx + 2])
          /\ args[trace[n].arg].value = <<argv[trace[n].idx + 2]>>
          /\ ~args[2].has_value

\* the values tried in the four spellings
SpellingValues ==
    {v_1, v_a, v_true, <<>>, <<"1","=","2">>, <<"-","1">>, Flag2(s_foo)}

\* xo_args_submit on a command line made of the given tokens
SubmitOn(tokens) == xo_args_submit(<<s_prog>> \o tokens, app_version, args)

SameOutcome(r1, r2, k) ==
    /\ r1.ret = r2.ret
    /\ r1.args[k].has_value = r2.args[k].has_value
    /\ r1.args[k].value = r2.args[k].value

\* no argument but k, the implicit switches included, matches the token
OnlyMatch(k, tok) ==
    LET d == SubmitDeclare(args, app_version).args
    IN  \A m \in 1 .. Len(d) :
            m # k => ~_xo_args_arg_matches_input(d[m], tok).matched

(* C7: for a String, Bool, Int or Double argument with name n and short   *)
(* name s whose four spellings match no other argument, the command lines *)
(* --n V, --n=V, -s V and -s=V give the same return value of              *)
(* xo_args_submit and the same stored value, for every value V.           *)
C7_FourSpellingsAgree ==
    NextCall("submit") =>
        \A k \in 1 .. Len(args), V \in SpellingValues :
            LET n2 == Flag2(args[k].name)
                s1 == Flag1(args[k].short_name)
            IN  (/\ IsScalarArg(k) /\ args[k].short_name # NULL
                 /\ \A tok \in {n2, s1, Assign(n2, V), Assign(s1, V)} :
                       OnlyMatch(k, tok)) =>
                   /\ SameOutcome(SubmitOn(<<n2, V>>),
                                  SubmitOn(<<Assign(n2, V)>>), k)
                   /\ SameOutcome(SubmitOn(<<n2, V>>), SubmitOn(<<s1, V>>), k)
                   /\ SameOutcome(SubmitOn(<<n2, V>>),
                                  SubmitOn(<<Assign(s1, V)>>), k)

(* C8: when every declaration of the host was accepted, the command lines *)
(* [prog, --help] and [prog, -h] make xo_args_submit print the help text  *)
(* and return false.                                                      *)
C8_HelpAlwaysAvailable ==
    (/\ Returned
     /\ \A n \in 1 .. Len(handles) : handles[n] # 0
     /\ argv \in {<<s_prog, Flag2(s_help)>>, <<s_prog, Flag1(s_h)>>}) =>
        /\ result = "false"
        /\ \E n \in 1 .. Len(out) : out[n].k = "banner"

\* the last n entries of the print log
LastOut(n) == SubSeq(out, Len(out) - n + 1, Len(out))

(* C9: when the scan ends without an error and the implicit help or       *)
(* version switch has been set, xo_args_submit prints the help text and   *)
(* returns false, and prints no "Error:" diagnostic and no hint, whether  *)
(* or not a required argument is without a value.                         *)
C9_HelpBeforeRequiredCheck ==
    (Returned /\ ScanClean /\ (HelpSet \/ VersionSet)) =>
        LET H == xo_args_print_help(args, app_version)
        IN  /\ result = "false"
            /\ Len(out) >= Len(H) /\ LastOut(Len(H)) = H
            /\ \A n \in 1 .. Len(out) : out[n].k \notin ErrorKinds \cup {"hint"}

C9_Witness ==
    /\ Returned /\ ScanClean /\ HelpSet /\ MissingArgs # {}
    /\ result = "false"
    /\ out # <<>> /\ out[1].k = "banner"

C11_QuietOnSuccess ==
    (/\ Returned /\ result = "true"
     /\ \A n \in 1 .. Len(handles) : handles[n] # 0) =>
        Len(out) = out_before.out

(* C12: once xo_args_destroy_ctx has run, the allocator has no live block *)
(* left, and every block it ever handed out was given back exactly once:  *)
(* either to free, or to the realloc call that replaced it.  This holds   *)
(* whether xo_args_submit returned true, false, or was not called.        *)
Blocks == 1 .. mem.next - 1
TimesFreed(b) == Cardinality({n \in 1 .. Len(mem.freed) : mem.freed[n] = b})
TimesMoved(b) == Cardinality({n \in 1 .. Len(mem.moved) : mem.moved[n] = b})

C12_EveryBlockFreedOnce ==
    pc = "destroyed" =>
        /\ mem.live = {}
        /\ \A b \in Blocks : TimesFreed(b) + TimesMoved(b) = 1
        /\ \A n \in 1 .. Len(mem.freed) : mem.freed[n] \in Blocks

\* a failed submit after which the list of tracked allocations, the
\* argument list and an array had all been reallocated
C12_Witness ==
    /\ pc = "destroyed" /\ result = "false"
    /\ mem.live = {} /\ Len(mem.moved) >= 2
    /\ mem.allocations_reserved > 8

C12_WitnessNoSubmit ==
    /\ pc = "destroyed" /\ result = "none"
    /\ mem.live = {} /\ mem.args_reserved > 4

\* the scan has handed a token to argument k
ScannedFor(k) ==
    \E n \in 1 .. Len(trace) : trace[n].kind = "flag" /\ trace[n].arg = k

SwitchArgs == {k \in 1 .. Len(args) : XO_ARGS_TYPE_SWITCH \in args[k].flags}

(* C13: at any time, xo_args_try_get_bool on a Switch argument returns    *)
(* true without a failed assertion, whatever the caller's variable held,  *)
(* and writes true exactly when the scan has met the switch's flag: false *)
(* before xo_args_submit and when no token of argv matches the switch,    *)
(* true when the first token of argv is its flag and has been scanned.    *)
C13_SwitchAlwaysFound ==
    \A k \in SwitchArgs : \A o \in BOOLEAN :
        /\ xo_args_try_get_bool(args, k, o) = Got(TRUE, ScannedFor(k), 0)
        /\ (\A p \in 2 .. Len(argv) :
               ~_xo_args_arg_matches_input(args[k], argv[p]).matched)
              => ~xo_args_try_get_bool(args, k, o).out
        /\ (/\ trace # <<>> /\ Len(argv[2]) >= 2
            /\ k = SetMin(Matching(args, argv[2]) \cup {k})
            /\ k \in Matching(args, argv[2]))
              => xo_args_try_get_bool(args, k, o).out

\* after a successful submit one switch is set and another is not
C13_Witness ==
    /\ Returned /\ result = "true"
    /\ \E k1, k2 \in SwitchArgs :
          /\ k1 # arg_help /\ k2 # arg_help
          /\ xo_args_try_get_bool(args, k1, FALSE) = Got(TRUE, TRUE, 0)
          /\ xo_args_try_get_bool(args, k2, TRUE) = Got(TRUE, FALSE, 0)

\* iteration n of the scan set a switch
SwitchSetAt(n) ==
    /\ trace[n].kind = "flag" /\ trace[n].ok
    /\ trace[n].arg \in SwitchArgs

BareWord(tok) == Len(tok) >= 1 /\ tok[1] # "-"

(* C14: an iteration of the scan that sets a switch leaves the scan index *)
(* on the flag, so the next token of argv, when there is one, is the next *)
(* token the scan looks at: a bare word there ends the scan with the      *)
(* unknown-argument error for that word, and a token that matches a       *)
(* declared argument is handed to the first argument it matches.          *)
C14_SwitchTakesNoValue ==
    \A n \in 1 .. Len(trace) :
        (SwitchSetAt(n) /\ trace[n].idx + 1 < Len(argv)) =>
            /\ trace[n].last = trace[n].idx
            /\ IF n = Len(trace)
               THEN pc = "scan" /\ i = trace[n].idx + 1
               ELSE
                 /\ trace[n + 1].idx = trace[n].idx + 1
                 /\ BareWord(argv[trace[n].idx + 2]) =>
                       /\ trace[n + 1].kind = "unknown"
                       /\ n + 1 = Len(trace) /\ result = "false"
                       /\ \E q \in 1 .. Len(out) :
                             out[q] = Prt("unknown", argv[trace[n].idx + 2])
                 /\ (/\ Len(argv[trace[n].idx + 2]) >= 2
                     /\ Matching(args, argv[trace[n].idx + 2]) # {}) =>
                       /\ trace[n + 1].kind = "flag"
                       /\ trace[n + 1].arg =
                             SetMin(Matching(args, argv[trace[n].idx + 2]))

\* a switch, then a bare word that is reported, after an earlier switch
\* that was followed by a declared flag
C14_Witness ==
    /\ Returned /\ result = "false" /\ Len(trace) >= 3
    /\ SwitchSetAt(Len(trace) - 2) /\ SwitchSetAt(Len(trace) - 1)
    /\ trace[Len(trace)].kind = "unknown"
    /\ BareWord(argv[trace[Len(trace)].idx + 1])

\* every character of the string is a letter, a digit or a hyphen
AllAlnum(str) == \A p \in 1 .. Len(str) : _xo_isalnum(str[p])

\* the host's next call is a declaration with well-formed names that no
\* declared argument uses
CleanDeclare ==
    /\ NextCall("declare")
    /\ Head(host).name # <<>> /\ AllAlnum(Head(host).name)
    /\ Head(host).short_name # NULL =>
          Head(host).short_name # <<>> /\ AllAlnum(Head(host).short_name)
    /\ \A k \in 1 .. Len(args) :
          /\ args[k].name # Head(host).name
          /\ Head(host).short_name = NULL
             \/ args[k].short_name # Head(host).short_name

(* C15: a declaration of a Switch with XO_ARGS_ARG_REQUIRED, with         *)
(* well-formed names that are not in use, returns a handle to a new last  *)
(* argument whose flags are Switch alone; no step ever leaves an argument *)
(* that is both Switch and required; and when nothing else is required,   *)
(* xo_args_submit on an argv without any flag returns true and prints     *)
(* nothing.                                                               *)
C15_RequiredSwitchIsOptional ==
    [][/\ \A k \in 1 .. Len(args') :
            ~({XO_ARGS_TYPE_SWITCH, XO_ARGS_ARG_REQUIRED} \subseteq args'[k].flags)
       /\ (/\ CleanDeclare
           /\ Head(host).flags = {XO_ARGS_TYPE_SWITCH, XO_ARGS_ARG_REQUIRED}) =>
             /\ Len(args') = Len(args) + 1
             /\ handles' = Append(handles, Len(args'))
             /\ args'[Len(args')] =
                   NewArg(Head(host).name, Head(host).short_name,
                          {XO_ARGS_TYPE_SWITCH})
             /\ (\A k \in 1 .. Len(args) :
                    XO_ARGS_ARG_REQUIRED \notin args[k].flags) =>
                   /\ xo_args_submit(<<s_prog>>, app_version, args').ret
                   /\ xo_args_submit(<<s_prog>>, app_version, args').out = <<>>
      ]_vars

\* a switch that was declared required is not set and submit returned true
C15_Witness ==
    /\ Returned /\ result = "true" /\ Len(argv) = 1
    /\ done[1].op = "declare"
    /\ done[1].flags = {XO_ARGS_TYPE_SWITCH, XO_ARGS_ARG_REQUIRED}
    /\ AllAlnum(done[1].name)
    /\ handles[1] = 1
    /\ args[1].flags = {XO_ARGS_TYPE_SWITCH} /\ ~args[1].has_value

\* the step reports tok as unknown and makes xo_args_submit return false
FailsUnknown(tok) ==
    /\ out' = out \o <<Prt("unknown", tok), Hint>>
    /\ result' = "false" /\ pc' = "host"
    /\ args' = args /\ asserts' = asserts

(* C16: an iteration of the scan loop of xo_args_submit on an empty token *)
(* only moves to the next token; on a token of one character, or one that *)
(* does not start with '-', and on a token that starts with '-' but       *)
(* matches no declared argument, it prints the unknown-argument error for *)
(* that token and the hint, and xo_args_submit returns false.             *)
C16_OuterScan ==
    [][(pc = "scan" /\ i < Len(argv)) =>
          /\ argv[i + 1] = <<>> =>
                /\ i' = i + 1 /\ pc' = "scan" /\ result' = result
                /\ out' = out /\ args' = args /\ asserts' = asserts
          /\ (Len(argv[i + 1]) = 1 \/ BareWord(argv[i + 1])) =>
                FailsUnknown(argv[i + 1])
          /\ (/\ Len(argv[i + 1]) >= 2 /\ argv[i + 1][1] = "-"
              /\ ~MatchesAny(argv[i + 1])) =>
                FailsUnknown(argv[i + 1])
      ]_vars

\* an empty token was passed over and the lone hyphen after it reported
C16_Witness ==
    /\ Returned /\ result = "false" /\ Len(trace) = 2
    /\ trace[1].kind = "skip" /\ argv[2] = <<>>
    /\ trace[2].kind = "unknown" /\ argv[3] = <<"-">>
    /\ out = <<Prt("unknown", <<"-">>), Hint>>

\* str starts with the characters of pre
StartsWith(str, pre) ==
    Len(str) >= Len(pre) /\ SubSeq(str, 1, Len(pre)) = pre

\* tok is flag, or flag followed by '=' and anything
FlagOrAssign(tok, flag) == tok = flag \/ StartsWith(tok, flag \o <<"=">>)

\* the arguments of which tok has the --name, --name=..., -short or
\* -short=... form
HasFormOf(tok) ==
    {k \in 1 .. Len(args) :
        \/ FlagOrAssign(tok, Flag2(args[k].name))
        \/ /\ args[k].short_name # NULL
           /\ FlagOrAssign(tok, Flag1(args[k].short_name))}

(* C17: every token the scan loop resolves (two characters or more, the   *)
(* first a hyphen) goes to the first argument in declaration order of     *)
(* which it has the --name, --name=..., -short or -short=... form, and is *)
(* reported as unknown when it has the form of none.                      *)
C17_FirstDeclaredFormWins ==
    \A n \in 1 .. Len(trace) :
        (Len(argv[trace[n].idx + 1]) >= 2 /\ argv[trace[n].idx + 1][1] = "-") =>
            IF HasFormOf(argv[trace[n].idx + 1]) = {}
            THEN trace[n].kind = "unknown"
            ELSE /\ trace[n].kind = "flag"
                 /\ trace[n].arg = SetMin(HasFormOf(argv[trace[n].idx + 1]))

\* the host's next call is a declaration with a character that is not a
\* letter, a digit or a hyphen in its name or in the short name it gives
IllFormedDeclare ==
    /\ NextCall("declare")
    /\ \/ ~AllAlnum(Head(host).name)
       \/ Head(host).short_name # NULL /\ ~AllAlnum(Head(host).short_name)

(* C18: a declaration whose name, or whose supplied short name, has a     *)
(* character other than a letter, a digit or a hyphen at any position     *)
(* returns NULL and leaves the argument list as it was.                   *)
C18_IllFormedNameRefused ==
    [][IllFormedDeclare => (handles' = Append(handles, 0) /\ args' = args)]_vars

\* the host's next call declares a name, or gives a short name, that a
\* declared argument has, character for character
ConflictingDeclare ==
    /\ NextCall("declare")
    /\ \E k \in 1 .. Len(args) :
          \/ args[k].name = Head(host).name
          \/ /\ Head(host).short_name # NULL
             /\ args[k].short_name = Head(host).short_name

(* C19: a declaration of a name or a short name that a declared argument  *)
(* already has returns NULL and changes neither the argument list nor the *)
(* allocator and the list of tracked allocations; names that differ from  *)
(* the declared ones only in the case of a letter do not conflict.        *)
C19_ConflictLeavesRegistry ==
    [][/\ ConflictingDeclare =>
            /\ handles' = Append(handles, 0)
            /\ args' = args /\ mem' = mem
       /\ (/\ CleanDeclare
           /\ Cardinality(Head(host).flags \cap all_types) <= 1) =>
            /\ handles' = Append(handles, Len(args) + 1)
            /\ Len(args') = Len(args) + 1
      ]_vars

\* both kinds of conflict were refused and a name in another case accepted
C19_Witness ==
    /\ Len(handles) >= 4 /\ Len(args) >= 2
    /\ done[1].name = s_foo /\ handles[1] = 1
    /\ done[2].name = s_foo /\ handles[2] = 0
    /\ done[3].name = s_bar /\ done[3].short_name = s_f /\ handles[3] = 0
    /\ done[4].name = s_Foo /\ handles[4] = 2 /\ args[2].name = s_Foo
    /\ Cardinality(mem.live) = 10

(* C20: a declaration with more than one type bit returns NULL and adds   *)
(* nothing; one with well-formed unused names and exactly one type bit    *)
(* adds an argument of that type; one with no type bit adds a String that *)
(* keeps XO_ARGS_ARG_REQUIRED when it was given; and after every step     *)
(* each argument in the list has exactly one type bit.                    *)
C20_ExactlyOneType ==
    [][/\ \A k \in 1 .. Len(args') :
            Cardinality(args'[k].flags \cap all_types) = 1
       /\ (/\ NextCall("declare")
           /\ Cardinality(Head(host).flags \cap all_types) > 1) =>
            /\ handles' = Append(handles, 0) /\ args' = args
       /\ (/\ CleanDeclare
           /\ Cardinality(Head(host).flags \cap all_types) = 1) =>
            /\ handles' = Append(handles, Len(args'))
            /\ Len(args') = Len(args) + 1
            /\ args'[Len(args')].flags \cap all_types =
                  Head(host).flags \cap all_types
       /\ (/\ CleanDeclare
           /\ Head(host).flags \cap all_types = {}) =>
            /\ handles' = Append(handles, Len(args'))
            /\ Len(args') = Len(args) + 1
            /\ args'[Len(args')].flags =
                  Head(host).flags \cup {XO_ARGS_TYPE_STRING}
      ]_vars

\* a declaration with two type bits was refused, one without a type bit
\* and with XO_ARGS_ARG_REQUIRED became a required String
C20_Witness ==
    /\ Len(done) >= 2 /\ Len(handles) >= 2
    /\ done[1].flags = {XO_ARGS_ARG_REQUIRED} /\ handles[1] = 1
    /\ args[1].flags = {XO_ARGS_TYPE_STRING, XO_ARGS_ARG_REQUIRED}
    /\ done[2].flags = {XO_ARGS_TYPE_INT, XO_ARGS_TYPE_BOOL} /\ handles[2] = 0


\* a declared argument owns the name version or the short name v
UserVersion ==
    \E k \in 1 .. Len(args) :
        /\ k \notin {arg_help, arg_version}
        /\ args[k].name = s_version \/ args[k].short_name = s_v

(* C21: when every declaration of the host was accepted, the command      *)
(* lines [prog, --version] and [prog, -v] make xo_args_submit return      *)
(* false after printing text that contains the version string when the    *)
(* context was created with one; without a version string, and with no    *)
(* declared argument named version or v, they make it return false with   *)
(* the unknown-argument error for that token.                             *)
C21_VersionSwitch ==
    (/\ Returned
     /\ \A n \in 1 .. Len(handles) : handles[n] # 0
     /\ argv \in {<<s_prog, Flag2(s_version)>>, <<s_prog, Flag1(s_v)>>}) =>
        IF app_version # NULL
        THEN /\ result = "false"
             /\ \E n \in 1 .. Len(out) : out[n] = Prt("banner", app_version)
        ELSE ~UserVersion =>
                /\ result = "false"
                /\ \E n \in 1 .. Len(out) : out[n] = Prt("unknown", argv[2])


\* the accessors, named by the type they are for
AccessorTypes == (ScalarTypes \cup ArrayTypes) \ {XO_ARGS_TYPE_SWITCH}

\* values a host may have stored in the output parameter of an accessor
Defaults(t) ==
    CASE t = XO_ARGS_TYPE_STRING -> {<<>>, <<"d">>}
      [] t = XO_ARGS_TYPE_INT ->
            {[neg |-> FALSE, mag |-> <<>>], [neg |-> TRUE, mag |-> <<7>>]}
      [] t = XO_ARGS_TYPE_DOUBLE ->
            {[cls |-> "fin", neg |-> FALSE, mag |-> <<>>, exp |-> 0],
             [cls |-> "fin", neg |-> FALSE, mag |-> <<5>>, exp |-> 0 - 1]}
      [] t = XO_ARGS_TYPE_BOOL -> BOOLEAN
      [] t = XO_ARGS_TYPE_STRING_ARRAY -> {<<>>, <<<<"d">>>>}
      [] t = XO_ARGS_TYPE_INT_ARRAY -> {<<>>, <<[neg |-> TRUE, mag |-> <<7>>]>>}
      [] t = XO_ARGS_TYPE_DOUBLE_ARRAY ->
            {<<>>, <<[cls |-> "fin", neg |-> FALSE, mag |-> <<5>>, exp |-> 0]>>}
      [] t = XO_ARGS_TYPE_BOOL_ARRAY -> {<<>>, <<TRUE, FALSE>>}

\* the accessor for type t called on handle k with d in its output parameter
GetAs(t, k, d) ==
    CASE t = XO_ARGS_TYPE_STRING -> xo_args_try_get_string(args, k, d)
      [] t = XO_ARGS_TYPE_INT -> xo_args_try_get_int(args, k, d)
      [] t = XO_ARGS_TYPE_DOUBLE -> xo_args_try_get_double(args, k, d)
      [] t = XO_ARGS_TYPE_BOOL -> xo_args_try_get_bool(args, k, d)
      [] t = XO_ARGS_TYPE_STRING_ARRAY ->
            xo_args_try_get_string_array(args, k, d)
      [] t = XO_ARGS_TYPE_INT_ARRAY -> xo_args_try_get_int_array(args, k, d)
      [] t = XO_ARGS_TYPE_DOUBLE_ARRAY ->
            xo_args_try_get_double_array(args, k, d)
      [] t = XO_ARGS_TYPE_BOOL_ARRAY -> xo_args_try_get_bool_array(args, k, d)

(* C22: for every String, Bool, Int, Double or array argument that has no *)
(* value, the accessor of its type returns false and the output parameter *)
(* still holds whatever the host stored in it before the call.            *)
C22_NoValueKeepsDefault ==
    \A k \in 1 .. Len(args) :
        LET t == TypeBranch(args[k].flags)
        IN  (t \in AccessorTypes /\ ~args[k].has_value) =>
               \A d \in Defaults(t) :
                   /\ ~GetAs(t, k, d).ret
                   /\ GetAs(t, k, d).out = d

C22_Witness ==
    /\ Returned /\ result = "true"
    /\ \E k, m \in 1 .. Len(args) :
          /\ IsScalarArg(k) /\ ~args[k].has_value
          /\ GetAs(TypeBranch(args[k].flags), k, <<"d">>).out = <<"d">>
          /\ IsArrayArg(m) /\ ~args[m].has_value
          /\ \E d \in Defaults(TypeBranch(args[m].flags)) :
                d # <<>> /\ GetAs(TypeBranch(args[m].flags), m, d).out = d

\* the accessor for type t takes a handle with these flags
Accepts(t, flags) ==
    IF t = XO_ARGS_TYPE_BOOL
    THEN flags \cap {XO_ARGS_TYPE_BOOL, XO_ARGS_TYPE_SWITCH} # {}
    ELSE t \in flags

(* C23: an accessor called on a handle whose declared type is not its own *)
(* fails an assertion, returns false and leaves the output parameter as   *)
(* it was, with or without a value; the Bool accessor takes Bool and      *)
(* Switch handles and no other, and a scalar accessor refuses the array   *)
(* of its element kind and the other way round.                           *)
C23_WrongTypeIsPreconditionFailure ==
    \A k \in 1 .. Len(args), t \in AccessorTypes :
        \A d \in Defaults(t) :
            IF Accepts(t, args[k].flags)
            THEN GetAs(t, k, d).asserts = 0
            ELSE GetAs(t, k, d) = Got(FALSE, d, 1)


\* the call gave a bad argc, no argv, or NULL among the first argc elements
BadCreate ==
    \/ create.argc < 1
    \/ create.argv_null
    \/ \E n \in 1 .. create.argc : create.argv[n] = NULL

(* C24: xo_args_create_ctx_advanced returns NULL, and has not called the  *)
(* allocation function, when argc < 1, when argv is NULL or when one of   *)
(* argv[0] .. argv[argc-1] is NULL; in every other case it returns a      *)
(* context.                                                               *)
C24_CreateValidates ==
    IF BadCreate
    THEN ~create.ret /\ mem.next = EmptyMem.next /\ mem.live = {}
    ELSE create.ret /\ mem.ctx # 0

C24_Witness ==
    /\ ~create.ret /\ mem = EmptyMem /\ asserts = 1
    /\ create.argc = 2 /\ ~create.argv_null
    /\ create.argv[1] = s_prog /\ create.argv[2] = NULL


\* the characters of the token after its first '='
AfterEquals(tok) ==
    LET p == CHOOSE p \in 1 .. Len(tok) :
                 tok[p] = "=" /\ \A q \in 1 .. p - 1 : tok[q] # "="
    IN  SubSeq(tok, p + 1, Len(tok))

\* the token is --name=... or -short=... of argument k
AssignForm(k, tok) ==
    \/ StartsWith(tok, Assign(Flag2(args[k].name), <<>>))
    \/ /\ args[k].short_name # NULL
       /\ StartsWith(tok, Assign(Flag1(args[k].short_name), <<>>))

(* C25: when the scan hands a token of the form --name=... or -short=...  *)
(* to a String argument that has no value yet, the stored value is the    *)
(* text after the '=' that follows the name, character for character      *)
(* (empty, with spaces, with further '=' or with quotes), the iteration   *)
(* succeeds and the scan goes on with the very next token.                *)
C25_AssignedStringVerbatim ==
    \A n \in 1 .. Len(trace) :
        LET e == trace[n]
            tok == argv[e.idx + 1]
        IN  (/\ e.kind = "flag"
             /\ TypeBranch(args[e.arg].flags) = XO_ARGS_TYPE_STRING
             /\ AssignForm(e.arg, tok) /\ FirstValueAt(n)) =>
               /\ e.ok /\ e.last = e.idx
               /\ args[e.arg].has_value
               /\ args[e.arg].value = <<AfterEquals(tok)>>
               /\ n < Len(trace) => trace[n + 1].idx = e.idx + 1
               /\ (n = Len(trace) /\ pc = "scan") => i = e.idx + 1

C25_Witness ==
    /\ Returned /\ result = "false" /\ Len(trace) = 2
    /\ argv = <<s_prog, Assign(Flag1(s_f), <<"a","=","b">>), <<" ","a"," ">>>>
    /\ args[1].value = <<<<"a","=","b">>>>
    /\ trace[2].kind = "unknown" /\ trace[2].idx = 2


\* the spellings of false and of true
FalseTexts ==
    {<<"0">>, <<"f","a","l","s","e">>, <<"F","a","l","s","e">>,
     <<"F","A","L","S","E">>}

TrueTexts ==
    {<<"1">>, <<"t","r","u","e">>, <<"T","r","u","e">>, <<"T","R","U","E">>}

\* the text that iteration n of the scan hands to the parser of a single
\* value: what follows the '=', or else the next token
ValueText(n) ==
    IF AssignForm(trace[n].arg, argv[trace[n].idx + 1])
    THEN AfterEquals(argv[trace[n].idx + 1])
    ELSE argv[trace[n].idx + 2]

\* iteration n gives a first value to a single-valued argument of type t
SingleValueAt(n, t) ==
    /\ trace[n].kind = "flag"
    /\ TypeBranch(args[trace[n].arg].flags) = t
    /\ FirstValueAt(n)
    /\ \/ AssignForm(trace[n].arg, argv[trace[n].idx + 1])
       \/ trace[n].idx + 1 < Len(argv)

\* iteration n failed with the error of kind k for the flag, and the hint
FailedWith(n, k) ==
    /\ ~trace[n].ok /\ n = Len(trace) /\ result = "false"
    /\ Len(out) >= 2 /\ out[Len(out) - 1].k = k /\ out[Len(out)] = Hint

(* C26: a text given to a Bool argument after the flag, after the '=' or  *)
(* as an element of a Bool array is accepted exactly when it is one of    *)
(* 0, false, False, FALSE (stored as false) or 1, true, True, TRUE        *)
(* (stored as true); any other text makes xo_args_submit return false     *)
(* with the "Invalid value provided" error.                               *)
C26_BoolSpellings ==
    \A n \in 1 .. Len(trace) :
        LET e == trace[n]
            j == e.arg
        IN  /\ SingleValueAt(n, XO_ARGS_TYPE_BOOL) =>
                  IF ValueText(n) \in FalseTexts \cup TrueTexts
                  THEN /\ e.ok /\ args[j].has_value
                       /\ args[j].value = <<ValueText(n) \in TrueTexts>>
                  ELSE FailedWith(n, "invalid_bool") /\ ~args[j].has_value
            /\ (e.kind = "flag"
                /\ TypeBranch(args[j].flags) = XO_ARGS_TYPE_BOOL_ARRAY) =>
                  /\ \A p \in e.idx + 1 .. e.last :
                        argv[p + 1] \in FalseTexts \cup TrueTexts
                  /\ \A q \in 1 .. Len(args[j].array) :
                        args[j].array[q] =
                           (argv[ConsumedBy(j, Len(trace))[q] + 1] \in TrueTexts)
                  /\ (~e.ok /\ e.last + 1 < Len(argv)) =>
                        /\ argv[e.last + 2] \notin FalseTexts \cup TrueTexts
                        /\ FailedWith(n, "invalid_bool")
                  /\ (e.ok /\ e.last + 1 < Len(argv)) =>
                        MatchesAny(argv[e.last + 2])

C26_Witness ==
    /\ Returned /\ result = "false"
    /\ XO_ARGS_TYPE_BOOL_ARRAY \in args[1].flags
    /\ argv = <<s_prog, Flag2(s_foo), <<"t","r","u","e">>, <<"a">>>>
    /\ args[1].array = <<TRUE>>
    /\ FailedWith(1, "invalid_bool")


OctalDigits == {"0", "1", "2", "3", "4", "5", "6", "7"}
DecimalDigits == OctalDigits \cup {"8", "9"}
HexDigits ==
    DecimalDigits
    \cup {"a", "b", "c", "d", "e", "f", "A", "B", "C", "D", "E", "F"}

\* the text without its sign
Unsigned(v) == IF v # <<>> /\ v[1] \in {"+", "-"} THEN Tail(v) ELSE v

IsHexLiteral(b) ==
    /\ Len(b) >= 3 /\ b[1] = "0" /\ b[2] \in {"x", "X"}
    /\ \A p \in 3 .. Len(b) : b[p] \in HexDigits

IsOctalLiteral(b) ==
    Len(b) >= 1 /\ b[1] = "0" /\ \A p \in 2 .. Len(b) : b[p] \in OctalDigits

IsDecimalLiteral(b) ==
    /\ Len(b) >= 1 /\ b[1] \in DecimalDigits \ {"0"}
    /\ \A p \in 2 .. Len(b) : b[p] \in DecimalDigits

\* an optional sign and then a literal, to the end of the text
IsIntLiteral(v) ==
    \/ IsHexLiteral(Unsigned(v))
    \/ IsOctalLiteral(Unsigned(v))
    \/ IsDecimalLiteral(Unsigned(v))

\* the number that the digits denote in the base
RECURSIVE Magnitude(_, _)
Magnitude(digits, base) ==
    IF digits = <<>> THEN <<>>
    ELSE MagMulAdd(Magnitude(SubSeq(digits, 1, Len(digits) - 1), base), base,
                   DigitValue[digits[Len(digits)]])

LiteralMagnitude(b) ==
    IF IsHexLiteral(b) THEN Magnitude(SubSeq(b, 3, Len(b)), 16)
    ELSE IF IsOctalLiteral(b) THEN Magnitude(b, 8)
    ELSE Magnitude(b, 10)

\* the number of an integer literal, as the arguments store it
LiteralValue(v) ==
    [neg |-> v[1] = "-" /\ LiteralMagnitude(Unsigned(v)) # <<>>,
     mag |-> LiteralMagnitude(Unsigned(v))]

\* the literal denotes a number of INT64_MIN .. INT64_MAX
InInt64(v) ==
    IF v[1] = "-"
    THEN MagLeq(LiteralMagnitude(Unsigned(v)),
                <<8,0,8,5,7,7,4,5,8,6,3,0,2,7,3,3,2,2,9>>)
    ELSE MagLeq(LiteralMagnitude(Unsigned(v)),
                <<7,0,8,5,7,7,4,5,8,6,3,0,2,7,3,3,2,2,9>>)

\* four spellings of 57005, and six texts that are no Int value
Spellings57005 ==
    {<<"5","7","0","0","5">>, <<"0","x","0","0","0","0","D","E","A","D">>,
     <<"0","1","5","7","2","5","5">>, <<"+","5","7","0","0","5">>}

RejectedIntTexts ==
    {<<"9","2","2","3","3","7","2","0","3","6","8","5","4","7","7","5","8","0","8">>,
     <<"-","9","2","2","3","3","7","2","0","3","6","8","5","4","7","7","5","8","0","9">>,
     <<>>, <<"+","+","1">>, <<"1",".","0">>, <<"0","x","a","b","c","d","e","f","g">>}

(* C27: a text given to an Int argument after the flag or after the '='   *)
(* is accepted exactly when it is an optional sign followed by a decimal, *)
(* 0x hexadecimal or 0-prefixed octal literal with nothing before or      *)
(* after it, and the number is within INT64_MIN .. INT64_MAX; the number  *)
(* is what is stored.  57005, 0x0000DEAD, 0157255 and +57005 store 57005; *)
(* 9223372036854775808, -9223372036854775809, the empty text, ++1, 1.0    *)
(* and 0xabcdefg give the "not a valid integer" error.                    *)
C27_IntGrammar ==
    \A n \in 1 .. Len(trace) :
        LET j == trace[n].arg
        IN  SingleValueAt(n, XO_ARGS_TYPE_INT) =>
              /\ IF IsIntLiteral(ValueText(n)) /\ InInt64(ValueText(n))
                 THEN /\ trace[n].ok /\ args[j].has_value
                      /\ args[j].value = <<LiteralValue(ValueText(n))>>
                 ELSE FailedWith(n, "invalid_int") /\ ~args[j].has_value
              /\ ValueText(n) \in Spellings57005 =>
                    args[j].value = <<[neg |-> FALSE, mag |-> <<5,0,0,7,5>>]>>
              /\ ValueText(n) \in RejectedIntTexts =>
                    FailedWith(n, "invalid_int")

C27_Witness ==
    /\ Returned /\ result = "true"
    /\ argv = <<s_prog, Flag2(s_foo), <<"-","9","2","2","3","3","7","2","0","3","6","8","5","4","7","7","5","8","0","8">>>>
    /\ args[1].value = <<[neg |-> TRUE,
                          mag |-> <<8,0,8,5,7,7,4,5,8,6,3,0,2,7,3,3,2,2,9>>]>>


(* C28: when the scan hands a flag token to a String, Bool, Int, Double   *)
(* or Switch argument that already has a value, xo_args_submit returns    *)
(* false with the "provided multiple times" error for that token and the  *)
(* hint, and with nothing else printed, whether the token is the last     *)
(* one, is followed by a text its type rejects or carries =value; every   *)
(* stored value stays as first written and the iteration ends on the flag *)
(* token itself.                                                          *)
C28_DuplicateBeforeType ==
    [][\A j \in 1 .. Len(args) :
          (Dispatched(j) /\ args[j].has_value /\ ~IsArrayArg(j)) =>
              /\ result' = "false" /\ pc' = "host"
              /\ out' = out \o <<Prt("multiple", argv[i + 1]), Hint>>
              /\ args' = args
              /\ trace' = Append(trace, Event(i, "flag", j, i, FALSE))
              /\ asserts' = asserts]_vars

C28_Witness ==
    /\ Returned /\ result = "false"
    /\ argv = <<s_prog, Assign(Flag2(s_foo), <<"1">>),
                Assign(Flag2(s_foo), <<"y","e","s">>)>>
    /\ XO_ARGS_TYPE_BOOL \in args[1].flags
    /\ args[1].value = <<TRUE>>
    /\ out = <<Prt("multiple", argv[3]), Hint>>
    /\ trace[2] = Event(2, "flag", 1, 2, FALSE)


\* argument k is matched by a token behind the C index p and by none before
OnlyAfter(k, p) ==
    /\ \E q \in p + 1 .. Len(argv) - 1 :
          _xo_args_arg_matches_input(args[k], argv[q + 1]).matched
    /\ \A n \in 1 .. Len(trace) : trace[n].arg # k

(* C29: the scan takes the tokens from left to right, each iteration      *)
(* starting right behind the previous one; the first iteration that fails *)
(* is the last one: xo_args_submit returns false without looking at a     *)
(* later token, has printed exactly one "Error:" diagnostic, and every    *)
(* argument that only a later token matches is left without a value.      *)
C29_FirstErrorStops ==
    /\ trace # <<>> => trace[1].idx = 1
    /\ \A n \in 1 .. Len(trace) - 1 :
          trace[n].ok /\ trace[n + 1].idx = trace[n].last + 1
    /\ (trace # <<>> /\ ~trace[Len(trace)].ok) =>
          /\ result = "false" /\ pc # "scan"
          /\ Cardinality({n \in out_before.out + 1 .. Len(out) :
                             out[n].k \in ErrorKinds}) = 1
          /\ \A k \in 1 .. Len(args) :
                OnlyAfter(k, trace[Len(trace)].last) => ~args[k].has_value

C29_Witness ==
    /\ Returned /\ result = "false" /\ Len(trace) = 2
    /\ trace[1].ok /\ ~trace[2].ok /\ trace[2].last + 2 <= Len(argv)
    /\ \E k \in 1 .. Len(args) :
          /\ k # arg_help
          /\ OnlyAfter(k, trace[2].last) /\ ~args[k].has_value
    /\ \E k \in 1 .. Len(args) : args[k].has_value


(* C30: while an array flag takes its elements, a token that matches no   *)
(* declared argument is never left to the outer scan.  For an Int, Double *)
(* or Bool array such a token that the element type rejects ends          *)
(* xo_args_submit with the invalid-value error of that type for the flag, *)
(* and no "unknown argument" error; for a String array every such token,  *)
(* also one that begins with a hyphen, is appended as it is.              *)
C30_SlurpTakesUnmatched ==
    \A n \in 1 .. Len(trace) :
        LET e == trace[n]
            j == e.arg
            t == TypeBranch(args[j].flags)
        IN  (e.kind = "flag" /\ IsArrayArg(j) /\ e.idx + 1 < Len(argv)) =>
              /\ (e.last + 1 < Len(argv) /\ ~MatchesAny(argv[e.last + 2])) =>
                    /\ t # XO_ARGS_TYPE_STRING_ARRAY
                    /\ ~ParseValue(t, argv[e.last + 2]).ok
                    /\ FailedWith(n, InvalidKind(t))
                    /\ out[Len(out) - 1].s = argv[e.idx + 1]
                    /\ \A m \in 1 .. Len(out) : out[m].k # "unknown"
              /\ t = XO_ARGS_TYPE_STRING_ARRAY =>
                    /\ e.ok
                    /\ \A q \in 1 .. Len(args[j].array) :
                          args[j].array[q] =
                             argv[ConsumedBy(j, Len(trace))[q] + 1]

C30_Witness ==
    /\ Returned /\ result = "false"
    /\ XO_ARGS_TYPE_INT_ARRAY \in args[1].flags
    /\ argv = <<s_prog, Flag2(s_foo), v_1, Flag2(s_bar)>>
    /\ Len(args[1].array) = 1
    /\ out = <<Prt("invalid_int", Flag2(s_foo)), Hint>>


\* xo_args_submit has returned after a scan without error in which neither
\* implicit switch was set, and a required argument is without a value
RequiredFailure ==
    /\ Returned /\ ScanClean /\ ~HelpSet /\ ~VersionSet /\ MissingArgs # {}

\* the names in the "is required" diagnostics printed
NamedRequired == {out[n].s : n \in {m \in 1 .. Len(out) : out[m].k = "required"}}

(* C31 as stated: when required arguments are without a value after the   *)
(* scan, the failure diagnostic names every one of them.                  *)
C31_EveryMissingNamed ==
    RequiredFailure => \A k \in MissingArgs : args[k].name \in NamedRequired

(* C31: the required check goes through the arguments in declaration      *)
(* order and stops at the first required argument without a value:        *)
(* xo_args_submit returns false after one "is required" diagnostic that   *)
(* names that argument, followed by the hint; required arguments declared *)
(* after it are not named, with or without a value.                       *)
C31_FirstMissingNamed ==
    RequiredFailure =>
        LET first == CHOOSE k \in MissingArgs : \A m \in MissingArgs : k <= m
        IN  /\ result = "false"
            /\ Len(out) >= 2
            /\ out[Len(out) - 1] = Prt("required", args[first].name)
            /\ out[Len(out)] = Hint
            /\ NamedRequired = {args[first].name}
            /\ Cardinality({n \in 1 .. Len(out) : out[n].k = "required"}) = 1

C31_Witness ==
    /\ RequiredFailure /\ Cardinality(MissingArgs) = 2
    /\ args[1].name = s_foo /\ args[2].name = s_host
    /\ out = <<Prt("required", s_foo), Hint>>


\* xo_args_submit has been called on the context
SubmitCalled == \E n \in 1 .. Len(done) : done[n].op = "submit"

(* C33: once xo_args_submit has been called the context is marked as      *)
(* submitted, and a later xo_args_declare_arg returns no handle and       *)
(* leaves the arguments as they are.                                      *)
C33_NoDeclareAfterSubmit ==
    [][SubmitCalled =>
          /\ submitted
          /\ NextCall("declare") =>
                /\ handles' = Append(handles, 0)
                /\ args' = args]_vars


\* the two spellings of the implicit help switch
HelpTexts == {Flag2(s_help), Flag1(s_h)}

\* iteration n gave the token after its flag to a value-taking argument:
\* a single value in space form, or the first element of an array
TookNextToken(n) ==
    /\ trace[n].kind = "flag"
    /\ trace[n].idx + 1 < Len(argv)
    /\ \/ IsArrayArg(trace[n].arg)
       \/ /\ IsScalarArg(trace[n].arg) /\ FirstValueAt(n)
          /\ SpaceForm(trace[n].arg, argv[trace[n].idx + 1])

(* C32: a --help or -h token that follows the flag of a value-taking      *)
(* argument, as the space-form value of a String, Bool, Int or Double or  *)
(* as the first element of an array, is never scanned as a flag; the help *)
(* switch is set only by an iteration of the scan that handed a token to  *)
(* it, and the help text is printed only after such an iteration.         *)
C32_HelpAsValueIsNoRequest ==
    arg_help # 0 =>
        /\ \A n \in 1 .. Len(trace) :
              (TookNextToken(n) /\ argv[trace[n].idx + 2] \in HelpTexts) =>
                  \A m \in 1 .. Len(trace) : trace[m].idx # trace[n].idx + 1
        /\ HelpSet <=> \E n \in 1 .. Len(trace) :
                          trace[n].kind = "flag" /\ trace[n].arg = arg_help
        /\ (\E m \in out_before.out + 1 .. Len(out) : out[m].k = "banner") =>
              \E n \in 1 .. Len(trace) :
                  /\ trace[n].kind = "flag"
                  /\ trace[n].arg \in {arg_help, arg_version}

C32_Witness ==
    /\ Returned /\ result = "true" /\ arg_help # 0 /\ ~HelpSet
    /\ argv = <<s_prog, Flag2(s_foo), Flag2(s_help)>>
    /\ IsScalarArg(1) /\ args[1].value = <<Flag2(s_help)>>
    /\ out = <<>>


\* the C indices of the tokens some iteration of the scan took as values
ValueTokenIndices ==
    {p \in 1 .. Len(argv) - 1 :
        \E n \in 1 .. Len(trace) :
            /\ trace[n].kind = "flag"
            /\ trace[n].idx < p /\ p <= trace[n].last}

\* the number of values stored in the first k arguments: one for a String,
\* Bool, Int or Double that has a value, one for each element of an array
RECURSIVE StoredValues(_)
StoredValues(k) ==
    IF k = 0 THEN 0
    ELSE StoredValues(k - 1)
         + (IF IsArrayArg(k) THEN Len(args[k].array)
            ELSE IF IsScalarArg(k) /\ args[k].has_value THEN 1 ELSE 0)

\* the iterations that stored the text after '=' of their own flag token
InlineValues ==
    {n \in 1 .. Len(trace) :
        /\ trace[n].kind = "flag" /\ trace[n].ok
        /\ IsScalarArg(trace[n].arg)
        /\ ~SpaceForm(trace[n].arg, argv[trace[n].idx + 1])}

\* after a successful submit every token behind argv[0] is one of: an
\* empty token the scan skipped, a flag token of a declared argument, a
\* value taken by the nearest flag token before it
Accounted ==
    \A p \in 1 .. Len(argv) - 1 :
        LET skipped == \E n \in 1 .. Len(trace) :
                          /\ trace[n].idx = p /\ trace[n].kind = "skip"
                          /\ argv[p + 1] = <<>>
            flagged == \E n \in 1 .. Len(trace) :
                          /\ trace[n].idx = p /\ trace[n].kind = "flag"
                          /\ trace[n].arg \in 1 .. Len(args)
                          /\ _xo_args_arg_matches_input(args[trace[n].arg],
                                                        argv[p + 1]).matched
            valued  == /\ p \in ValueTokenIndices
                       /\ \E n \in 1 .. Len(trace) :
                             /\ trace[n].kind = "flag"
                             /\ trace[n].idx < p /\ p <= trace[n].last
                             /\ \A m \in 1 .. Len(trace) :
                                   trace[m].idx < p => trace[m].idx <= trace[n].idx
        IN  /\ skipped \/ flagged \/ valued
            /\ ~(skipped /\ flagged) /\ ~(skipped /\ valued)
            /\ ~(flagged /\ valued)
            /\ Cardinality({n \in 1 .. Len(trace) : trace[n].idx = p}) <= 1

(* C34 as stated: after a successful submit every token is accounted for  *)
(* exactly once and the number of stored String, Bool, Int and Double     *)
(* values plus array elements equals the number of value tokens.          *)
C34_StoredEqualsValueTokens ==
    (Returned /\ result = "true") =>
        /\ Accounted
        /\ StoredValues(Len(args)) = Cardinality(ValueTokenIndices)

(* C34: after a successful submit every token behind argv[0] is accounted *)
(* for exactly once, as a skipped empty token, a flag token of a declared *)
(* argument or a value of the nearest flag token before it, and the       *)
(* number of stored String, Bool, Int and Double values plus array        *)
(* elements equals the number of value tokens plus the number of flag     *)
(* tokens that carried their value after '='.                             *)
C34_TokensAccountedOnce ==
    (Returned /\ result = "true") =>
        /\ Accounted
        /\ StoredValues(Len(args))
              = Cardinality(ValueTokenIndices) + Cardinality(InlineValues)

C34_Witness ==
    /\ Returned /\ result = "true"
    /\ Len(trace) = 2 /\ InlineValues = {1}
    /\ ValueTokenIndices = {} /\ StoredValues(Len(args)) = 1


\* iteration n handed a token --name=... or -short=... to a switch that
\* had not been set before
SwitchAssignedAt(n) ==
    /\ trace[n].kind = "flag" /\ trace[n].arg \in SwitchArgs
    /\ AssignForm(trace[n].arg, argv[trace[n].idx + 1])
    /\ FirstValueAt(n)

(* C35: an iteration of the scan that hands a token --name=VALUE or       *)
(* -short=VALUE to a switch without a value succeeds whatever VALUE is:   *)
(* the switch is set, xo_args_try_get_bool gives true, the scan index     *)
(* stays on the token and the iteration prints no error; when the switch  *)
(* is the implicit help switch and the scan ends without error, the help  *)
(* text is printed and xo_args_submit returns false.                      *)
C35_AssignedSwitchIsTrue ==
    \A n \in 1 .. Len(trace) :
        SwitchAssignedAt(n) =>
            /\ trace[n].ok /\ trace[n].last = trace[n].idx
            /\ args[trace[n].arg].has_value
            /\ xo_args_try_get_bool(args, trace[n].arg, FALSE) = Got(TRUE, TRUE, 0)
            /\ n = Len(trace) =>
                  \A q \in out_before.out + 1 .. Len(out) :
                      out[q].k \notin ErrorKinds \ {"required"}
            /\ (trace[n].arg = arg_help /\ Returned /\ ScanClean) =>
                  LET H == xo_args_print_help(args, app_version)
                  IN  /\ result = "false"
                      /\ Len(out) >= Len(H) /\ LastOut(Len(H)) = H

\* --foo=false on a switch foo, and submit returned true
C35_Witness ==
    /\ Returned /\ result = "true"
    /\ argv = <<s_prog, Assign(Flag2(s_foo), <<"f","a","l","s","e">>)>>
    /\ Len(trace) = 1 /\ SwitchAssignedAt(1)
    /\ xo_args_try_get_bool(args, 1, FALSE) = Got(TRUE, TRUE, 0)
    /\ out_before.out = Len(out)


\* iteration n handed a token --name=... to an array argument
ArrayAssignedAt(n) ==
    /\ trace[n].kind = "flag" /\ IsArrayArg(trace[n].arg)
    /\ AssignForm(trace[n].arg, argv[trace[n].idx + 1])

(* C36: when the scan hands a token --name=VALUE to an array argument,    *)
(* VALUE is not stored: as the last token of argv the iteration fails     *)
(* with the "No value provided" diagnostic for that token and the hint,   *)
(* otherwise the token behind it is parsed as the first element of the    *)
(* occurrence; the elements of the array are, in order, the conversions   *)
(* of the tokens taken behind its flags and nothing else.                 *)
C36_ArrayAssignIgnoresValue ==
    \A n \in 1 .. Len(trace) :
        LET e == trace[n]
            t == TypeBranch(args[e.arg].flags)
            took == ConsumedBy(e.arg, Len(trace))
        IN  ArrayAssignedAt(n) =>
              /\ Len(args[e.arg].array) = Len(took)
              /\ \A q \in 1 .. Len(took) :
                    /\ ParseValue(t, argv[took[q] + 1]).ok
                    /\ args[e.arg].array[q] = ParseValue(t, argv[took[q] + 1]).value
              /\ IF e.idx = Len(argv) - 1
                 THEN /\ ~e.ok /\ e.last = e.idx /\ result = "false"
                      /\ out[Len(out) - 1] = Prt("novalue", argv[e.idx + 1])
                      /\ out[Len(out)] = Hint
                 ELSE /\ \A m \in 1 .. Len(trace) : trace[m].idx # e.idx + 1
                      /\ IF ParseValue(t, argv[e.idx + 2]).ok
                         THEN /\ e.last >= e.idx + 1
                              /\ \E q \in 1 .. Len(took) : took[q] = e.idx + 1
                         ELSE /\ ~e.ok /\ e.last = e.idx
                              /\ out[Len(out) - 1] =
                                    Prt(InvalidKind(t), argv[e.idx + 1])

\* --foo=0 1 on a Bool array: the array holds true only
C36_Witness ==
    /\ Returned /\ result = "true"
    /\ argv = <<s_prog, Assign(Flag2(s_foo), <<"0">>), <<"1">>>>
    /\ ArrayAssignedAt(1)
    /\ args[1].array = <<TRUE>>


(* C37: once xo_args_submit has begun to scan it returns, with true or    *)
(* with false; every iteration of the outer loop that lets the loop go on *)
(* leaves the scan index greater than it was, also after an array has     *)
(* taken several tokens, and the loop body runs at most argc - 1 times.   *)
C37_SubmitTerminates ==
    /\ [][(pc = "scan" /\ trace' # trace) =>
             /\ Len(trace') = Len(trace) + 1
             /\ trace'[Len(trace')].idx = i
             /\ trace'[Len(trace')].last >= i
             /\ pc' = "scan" => i' = trace'[Len(trace')].last + 1 /\ i' > i
             /\ pc' # "scan" => pc' = "host" /\ result' = "false"]_vars
    /\ [](trace # <<>> => Len(trace) <= Len(argv) - 1)
    /\ (pc = "scan") ~> (pc = "host" /\ result \in {"true", "false"})

\* an array took three tokens in one iteration and submit returned
C37_Witness ==
    /\ Returned /\ pc = "host"
    /\ Len(argv) = 6 /\ Len(trace) = 2
    /\ trace[1].last = trace[1].idx + 3
    /\ trace[2].idx = 5


\* iteration n handed its token to an argument that needs the token after
\* the flag: an array, or a String, Bool, Int or Double in space form
NeedsNextToken(n) ==
    /\ trace[n].kind = "flag"
    /\ \/ IsArrayArg(trace[n].arg)
       \/ /\ IsScalarArg(trace[n].arg) /\ FirstValueAt(n)
          /\ SpaceForm(trace[n].arg, argv[trace[n].idx + 1])

(* C38: every index of argv that xo_args_submit looks at is below argc    *)
(* and every offset into a token is at most its length.  An iteration     *)
(* starts at an index from 1 to argc - 1 and the tokens it takes end at   *)
(* an index below argc; an argument that needs the token after its flag   *)
(* and finds the flag last in argv fails with "No value provided" and     *)
(* takes nothing; the loop itself runs only on an index below argc.  For  *)
(* every declared argument and every token of argv, a match leaves        *)
(* the matched name inside the token, and in an assignment match the byte *)
(* before the value offset is the '=' of the token and the value offset   *)
(* is at most the index of the terminating NUL.                           *)
C38_ReadsStayInside ==
    /\ \A n \in 1 .. Len(trace) :
          /\ 1 <= trace[n].idx /\ trace[n].idx <= trace[n].last
          /\ trace[n].last <= Len(argv) - 1
          /\ (NeedsNextToken(n) /\ trace[n].idx = Len(argv) - 1) =>
                /\ ~trace[n].ok /\ trace[n].last = trace[n].idx
                /\ \E q \in out_before.out + 1 .. Len(out) :
                      out[q] = Prt("novalue", argv[trace[n].idx + 1])
    /\ pc = "scan" => i >= 1
    /\ \A k \in 1 .. Len(args), p \in 2 .. Len(argv) :
          LET tok == argv[p]
              m   == _xo_args_arg_matches_input(args[k], tok)
              hy  == IF m.match_type \in {"NAME", "ASSIGN_NAME"} THEN 2 ELSE 1
          IN  m.matched =>
                /\ hy + m.matched_name_length <= Len(tok)
                /\ IsAssign(m) =>
                      /\ AssignOffset(m) <= Len(tok)
                      /\ CharAt(tok, AssignOffset(m) - 1) = "="
                      /\ \A c \in 0 .. AssignOffset(m) - 2 :
                            CharAt(tok, c) # "NUL"

\* a flag that needs a value is the last token of argv
C38_Witness ==
    /\ Returned /\ result = "false"
    /\ Len(trace) = 1 /\ NeedsNextToken(1)
    /\ trace[1].idx = Len(argv) - 1 /\ ~trace[1].ok
    /\ out = <<Prt("novalue", argv[Len(argv)]), Hint>>


\* xo_args_create_ctx gave a context (no host of the model gives app_name)
Created == create.ret

Name_c == <<"c">>

(* C39: the application name of a context created without app_name is the *)
(* basename of argv[0], the file name without directories and without     *)
(* extensions: c for /a/b/c.e, /a/b/c, /a/b/c.e.f, /a/b/c..f, /a/b/c..,   *)
(* /a/b/c/ and /c; it is app when argv[0] is empty.                       *)
C39_AppNameIsBasename ==
    Created =>
        /\ argv[1] \in {<<"/","a","/","b","/","c",".","e">>,
                      <<"/","a","/","b","/","c">>,
                      <<"/","a","/","b","/","c",".","e",".","f">>,
                      <<"/","a","/","b","/","c",".",".","f">>,
                      <<"/","a","/","b","/","c",".",".">>,
                      <<"/","a","/","b","/","c","/">>,
                      <<"/","c">>}
              => DefaultAppName(argv) = Name_c
        /\ argv[1] = <<>> => DefaultAppName(argv) = <<"a","p","p">>


\* a context exists: create gave one and destroy has not been called
ContextAlive == create.ret /\ pc # "destroyed"

\* the blocks handed out through the context: all live blocks but the
\* context itself and the list of tracked allocations
ContextBlocks == mem.live \ {mem.ctx, mem.allocations_ptr}

====
